---- MODULE Spec2Model ----
(***************************************************************************)
(* A model of renik's Bluetooth records (src/src/bluetooth.rs):            *)
(*   BluetoothDeviceInfo       one peer's record, with its bounded buffers *)
(*   BluetoothDeviceList       the list of up to 10 records                *)
(*   BluetoothConnectionState  one peer's live state and its phase FSM     *)
(* and of the Wi-Fi credential record WifiConfig (src/src/wifi.rs) and the *)
(* device identity record DeviceInfo (src/src/device.rs).                  *)
(* Each object is one variable holding a record with the struct's fields.  *)
(* Every public method is a pure operator from the object (and the         *)
(* arguments) to the object after the call, plus an action that applies it *)
(* and records the call: `call` holds the operation, its argument and what *)
(* it returned, and pre_* holds the object as it was before the call.      *)
(* The caller then takes the result (Return) and is free to call again, so *)
(* a behaviour is any sequence of calls, each followed by its Return.      *)
(* u8 arrays are sequences of bytes (index 1 is the array's index 0).      *)
(* Option<T> is <<>> for None and <<v>> for Some(v).                       *)
(* Result<T, Error> is <<"Ok", v>>, <<"Ok">> for Ok(()) or <<"Err", e>>.   *)
(* A call that panics has the result <<"panic">> and nothing follows it.   *)
(* A ConnHandle is the tuple <<v>> of its u16; the u32 connection_count is *)
(* the pair <<high 16 bits, low 16 bits>>.                                 *)
(***************************************************************************)
EXTENDS Integers, Sequences, FiniteSets, TLC

VARIABLES
    cs,         \* the BluetoothConnectionState
    pre_cs,     \* cs before the last call on it
    list,       \* the BluetoothDeviceList
    pre_list,   \* list before the last call on it
    abs_list,   \* the abstract sequence the list is compared with
    dev,        \* the BluetoothDeviceInfo
    pre_dev,    \* dev before the last call on it
    wifi,       \* the WifiConfig
    pre_wifi,   \* wifi before the last call on it
    info,       \* the DeviceInfo
    pre_info,   \* info before the last call on it
    call        \* the last call: [op, arg, ret]

vars ==
    <<cs, pre_cs, list, pre_list, abs_list, dev, pre_dev, wifi, pre_wifi, info, pre_info, call>>

(***************************************************************************)
(* Bytes, results and options.                                             *)
(***************************************************************************)
Zeros(n) == [i \in 1..n |-> 0]

\* core::cmp / slice helpers
AllZero(bytes) == \A i \in 1..Len(bytes) : bytes[i] = 0

Ok == <<"Ok">>

OkOf(v) == <<"Ok", v>>

Err(e) == <<"Err", e>>

None == <<>>

Some(v) == <<v>>

NoCall == [op |-> "none", arg |-> <<>>, ret |-> <<>>]

\* [0x12, 0x34, 0x56, 0x78, 0x9A, 0xBC]
MacA == <<18, 52, 86, 120, 154, 188>>

\* [0x98, 0x76, 0x54, 0x32, 0x10, 0xFE]
MacB == <<152, 118, 84, 50, 16, 254>>

(***************************************************************************)
(* Magic numbers.                                                          *)
(***************************************************************************)
\* 0x4254_4C45
BLUETOOTH_CONFIG_MAGIC == 1112820805

\* 0x4254_4C53
BLUETOOTH_DEVICE_LIST_MAGIC == 1112820819

\* 0x4254_4353
BLUETOOTH_CONNECTION_STATE_MAGIC == 1112818515

(***************************************************************************)
(* ConnHandle: the tuple struct ConnHandle(u16), written <<v>>; new()       *)
(* accepts a value up to 0x0EFF and panics above it.                       *)
(***************************************************************************)
\* 0x0EFF
CONN_HANDLE_MAX == 3839

Panic == <<"panic">>

\* #[derive(Default)]: ConnHandle(0)
ConnHandle_default == <<0>>

\* faulty variant: the bound of the assert! is exclusive
ConnHandle_new_exclusive(val) == IF val < CONN_HANDLE_MAX THEN OkOf(<<val>>) ELSE Panic

\* faulty variant: no assert!
ConnHandle_new_unchecked(val) == OkOf(<<val>>)

\* "Ok" for a value new() returns, Panic where its assert! fails
ConnHandle_new(val) == IF val <= CONN_HANDLE_MAX THEN OkOf(<<val>>) ELSE Panic

\* self.0
raw(handle) == handle[1]

\* impl From<u16> for ConnHandle
ConnHandle_from(val) == ConnHandle_new(val)

\* impl From<ConnHandle> for u16
u16_from(handle) == raw(handle)

(***************************************************************************)
(* BluetoothConnectionParams and BluetoothSecurityInfo.                    *)
(***************************************************************************)
BluetoothConnectionParams_default ==
    [connection_handle     |-> ConnHandle_default,
     connection_interval   |-> 0,
     connection_latency    |-> 0,
     supervision_timeout   |-> 0,
     master_clock_accuracy |-> 0,
     link_type             |-> 0,
     encryption_enabled    |-> 0,
     rssi                  |-> -127,
     connected_at          |-> 0,
     last_activity         |-> 0,
     padding               |-> Zeros(4)]

BluetoothSecurityInfo_default ==
    [link_key          |-> Zeros(16),
     link_key_type     |-> 0,
     auth_requirements |-> 0,
     io_capabilities   |-> 0,
     security_level    |-> 1,
     pin_length        |-> 0,
     link_key_valid    |-> 0,
     authenticated     |-> 0,
     encrypted         |-> 0,
     ssp_supported     |-> 0,
     mitm_required     |-> 0,
     padding           |-> Zeros(6)]

(***************************************************************************)
(* Integer types.  A u8 is a number in 0..255 with the bitwise operators   *)
(* computed bit by bit.  The u32 connection_count is written               *)
(* <<high 16 bits, low 16 bits>>, so that 0xFFFFFFFF is <<65535, 65535>>.  *)
(***************************************************************************)
Bit(x, i) == (x \div (2 ^ i)) % 2

U8OfBits(b) ==
    b[0] + 2 * b[1] + 4 * b[2] + 8 * b[3] + 16 * b[4] + 32 * b[5] + 64 * b[6] + 128 * b[7]

\* a | b
BitOr(a, b) == U8OfBits([i \in 0..7 |-> IF Bit(a, i) = 1 \/ Bit(b, i) = 1 THEN 1 ELSE 0])

\* a & b
BitAnd(a, b) == U8OfBits([i \in 0..7 |-> IF Bit(a, i) = 1 /\ Bit(b, i) = 1 THEN 1 ELSE 0])

\* !a
BitNot(a) == U8OfBits([i \in 0..7 |-> 1 - Bit(a, i)])

\* a >> n
Shr(a, n) == a \div (2 ^ n)

u32_MAX == <<65535, 65535>>

\* x.wrapping_add(1)
wrapping_add_1(x) ==
    IF x[2] < 65535 THEN <<x[1], x[2] + 1>>
    ELSE IF x[1] < 65535 THEN <<x[1] + 1, 0>>
    ELSE <<0, 0>>

\* x.saturating_add(1)
saturating_add_1(x) == IF x = u32_MAX THEN u32_MAX ELSE wrapping_add_1(x)

(***************************************************************************)
(* BluetoothDeviceInfo.                                                    *)
(***************************************************************************)
\* capacity of device_name: [u8; 32]
DEVICE_NAME_CAPACITY == 32

\* capacity of pairing_key: [u8; 64]
PAIRING_KEY_CAPACITY == 64

BluetoothDeviceInfo_default ==
    [magic             |-> BLUETOOTH_CONFIG_MAGIC,
     mac_address       |-> Zeros(6),
     device_name       |-> Zeros(DEVICE_NAME_CAPACITY),
     device_name_len   |-> 0,
     pairing_key       |-> Zeros(PAIRING_KEY_CAPACITY),
     pairing_key_len   |-> 0,
     class_of_device   |-> Zeros(3),
     device_type       |-> 0,
     flags             |-> 0,
     padding1          |-> 0,
     connection_count  |-> <<0, 0>>,
     last_seen         |-> 0,
     last_connected    |-> 0,
     connection_params |-> BluetoothConnectionParams_default,
     security_info     |-> BluetoothSecurityInfo_default,
     vendor_id         |-> 0,
     product_id        |-> 0,
     version           |-> 0,
     padding2          |-> 0]

set_mac_address(d, mac_address) == [d EXCEPT !.mac_address = mac_address]

\* faulty variant: the buffer is not cleared
fill_skipped(buffer, value) == buffer

\* buffer.fill(value)
fill(buffer, value) == [i \in 1..Len(buffer) |-> value]

\* buffer[..bytes.len()].copy_from_slice(bytes)
copy_to_prefix(buffer, bytes) ==
    bytes \o SubSeq(buffer, Len(bytes) + 1, Len(buffer))

\* faulty variant: the stored length only ever grows
set_device_name_len_grows(d, device_name) ==
    IF Len(device_name) > 32
    THEN <<Err("InvalidBluetoothDeviceInfo"), d>>
    ELSE <<Ok, [d EXCEPT !.device_name_len =
                             IF Len(device_name) > @ THEN Len(device_name) % 256 ELSE @,
                         !.device_name = copy_to_prefix(fill(@, 0), device_name)]>>

\* <<result, record after the call>>
set_device_name(d, device_name) ==
    IF Len(device_name) > 32
    THEN <<Err("InvalidBluetoothDeviceInfo"), d>>
    ELSE <<Ok, [d EXCEPT !.device_name_len = Len(device_name) % 256,
                         !.device_name = copy_to_prefix(fill(@, 0), device_name)]>>

\* faulty variant: the length is stored before the length check
set_pairing_key_len_first(d, pairing_key) ==
    IF Len(pairing_key) > 64
    THEN <<Err("InvalidBluetoothDeviceInfo"),
           [d EXCEPT !.pairing_key_len = Len(pairing_key) % 256]>>
    ELSE <<Ok, [d EXCEPT !.pairing_key_len = Len(pairing_key) % 256,
                         !.pairing_key = copy_to_prefix(fill(@, 0), pairing_key)]>>

set_pairing_key(d, pairing_key) ==
    IF Len(pairing_key) > 64
    THEN <<Err("InvalidBluetoothDeviceInfo"), d>>
    ELSE <<Ok, [d EXCEPT !.pairing_key_len = Len(pairing_key) % 256,
                         !.pairing_key = copy_to_prefix(fill(@, 0), pairing_key)]>>

\* the ? operator: the first failure returns, with what was written before it
set_device_info(d, device_name, pairing_key) ==
    LET r1 == set_device_name(d, device_name)
        r2 == set_pairing_key(r1[2], pairing_key)
    IN  IF r1[1] # Ok THEN r1
        ELSE IF r2[1] # Ok THEN r2
        ELSE <<Ok, r2[2]>>

get_device_name(d) == SubSeq(d.device_name, 1, d.device_name_len)

get_pairing_key(d) == SubSeq(d.pairing_key, 1, d.pairing_key_len)

\* faulty variant: the address is not stored
BluetoothDeviceInfo_new_without_address(mac_address, device_name) ==
    IF Len(device_name) > 32
    THEN Err("InvalidBluetoothDeviceInfo")
    ELSE LET r == set_device_name(BluetoothDeviceInfo_default, device_name)
         IN  IF r[1] # Ok THEN r[1] ELSE OkOf(r[2])

\* <<"Ok", record>> or <<"Err", e>>
BluetoothDeviceInfo_new(mac_address, device_name) ==
    IF Len(device_name) > 32
    THEN Err("InvalidBluetoothDeviceInfo")
    ELSE LET r == set_device_name(set_mac_address(BluetoothDeviceInfo_default, mac_address),
                                  device_name)
         IN  IF r[1] # Ok THEN r[1] ELSE OkOf(r[2])

\* faulty variant: only the validity tag is looked at
is_valid_magic_only(d) == d.magic = BLUETOOTH_CONFIG_MAGIC

is_valid(d) == d.magic = BLUETOOTH_CONFIG_MAGIC /\ ~AllZero(d.mac_address)

\* <BluetoothDeviceInfo as Zeroable>::zeroed(): every byte of the record is 0
BluetoothDeviceInfo_zeroed ==
    [BluetoothDeviceInfo_default EXCEPT
        !.magic = 0,
        !.connection_params.rssi = 0,
        !.security_info.security_level = 0]

DEVICE_TYPE_UNKNOWN == 0

DEVICE_TYPE_COMPUTER == 1

DEVICE_TYPE_PHONE == 2

DEVICE_TYPE_NETWORK == 3

DEVICE_TYPE_AUDIO == 4

DEVICE_TYPE_PERIPHERAL == 5

DEVICE_TYPE_IMAGING == 6

DEVICE_TYPE_WEARABLE == 7

DEVICE_TYPE_TOY == 8

\* 0x01
FLAG_PAIRED == 1

\* 0x02
FLAG_TRUSTED == 2

\* 0x04
FLAG_AUDIO == 4

\* 0x08
FLAG_INPUT == 8

\* 0x10
FLAG_FILE_TRANSFER == 16

\* 0x20
FLAG_CONNECTED == 32

\* 0x40
FLAG_AUTO_RECONNECT == 64

\* 0x80
FLAG_RECENTLY_DISCOVERED == 128

\* faulty variant: the major class is taken from the low five bits of byte 1
set_class_of_device_unshifted(d, class_of_device) ==
    LET major_class == BitAnd(class_of_device[2], 31)
    IN  [d EXCEPT !.class_of_device = class_of_device,
                  !.device_type =
                      CASE major_class = 1 -> DEVICE_TYPE_COMPUTER
                        [] major_class = 2 -> DEVICE_TYPE_PHONE
                        [] major_class = 3 -> DEVICE_TYPE_NETWORK
                        [] major_class = 4 -> DEVICE_TYPE_AUDIO
                        [] major_class = 5 -> DEVICE_TYPE_PERIPHERAL
                        [] major_class = 6 -> DEVICE_TYPE_IMAGING
                        [] major_class = 7 -> DEVICE_TYPE_WEARABLE
                        [] major_class = 8 -> DEVICE_TYPE_TOY
                        [] OTHER           -> DEVICE_TYPE_UNKNOWN]

\* faulty variant: the class is stored, the device type is left as it was
set_class_of_device_keeps_type(d, class_of_device) ==
    [d EXCEPT !.class_of_device = class_of_device]

\* class_of_device[1] is the sequence's element 2
set_class_of_device(d, class_of_device) ==
    LET major_class == BitAnd(Shr(class_of_device[2], 2), 31)
    IN  [d EXCEPT !.class_of_device = class_of_device,
                  !.device_type =
                      CASE major_class = 1 -> DEVICE_TYPE_COMPUTER
                        [] major_class = 2 -> DEVICE_TYPE_PHONE
                        [] major_class = 3 -> DEVICE_TYPE_NETWORK
                        [] major_class = 4 -> DEVICE_TYPE_AUDIO
                        [] major_class = 5 -> DEVICE_TYPE_PERIPHERAL
                        [] major_class = 6 -> DEVICE_TYPE_IMAGING
                        [] major_class = 7 -> DEVICE_TYPE_WEARABLE
                        [] major_class = 8 -> DEVICE_TYPE_TOY
                        [] OTHER           -> DEVICE_TYPE_UNKNOWN]

set_flags(d, flags) == [d EXCEPT !.flags = flags]

\* faulty variant: the flags byte is replaced by the flag
add_flag_overwrites(d, flag) == [d EXCEPT !.flags = flag]

\* self.flags |= flag
add_flag(d, flag) == [d EXCEPT !.flags = BitOr(@, flag)]

\* self.flags &= !flag
remove_flag(d, flag) == [d EXCEPT !.flags = BitAnd(@, BitNot(flag))]

\* (self.flags & flag) != 0
has_flag(d, flag) == BitAnd(d.flags, flag) # 0

\* The outcomes of the call, each <<<<>> or Panic, record after it>>.  `+= 1` on a
\* u32 holding 0xFFFFFFFF panics in a build with overflow checks (the params
\* are already replaced, the count and the flags are not yet touched) and
\* wraps to 0 in a build without them.
update_connection_params(d, params) ==
    LET d1 == [d EXCEPT !.connection_params = params]
        d2 == [d1 EXCEPT !.connection_count = wrapping_add_1(@)]
    IN  IF d1.connection_count = u32_MAX
        THEN {<<Panic, d1>>, <<<<>>, add_flag(d2, FLAG_CONNECTED)>>}
        ELSE {<<<<>>, add_flag(d2, FLAG_CONNECTED)>>}

\* faulty variant: an unauthenticated update clears the Paired flag
update_security_info_clears(d, security) ==
    LET d1 == [d EXCEPT !.security_info = security]
    IN  IF security.authenticated # 0 THEN add_flag(d1, FLAG_PAIRED)
                                      ELSE remove_flag(d1, FLAG_PAIRED)

update_security_info(d, security) ==
    LET d1 == [d EXCEPT !.security_info = security]
    IN  IF security.authenticated # 0 THEN add_flag(d1, FLAG_PAIRED) ELSE d1

update_last_seen(d, timestamp) == [d EXCEPT !.last_seen = timestamp]

update_last_connected(d, timestamp) == [d EXCEPT !.last_connected = timestamp]

set_connection_count(d, count) == [d EXCEPT !.connection_count = count]

\* faulty variant: the counter wraps to 0 at 0xFFFFFFFF
increment_connection_count_wraps(d) == [d EXCEPT !.connection_count = wrapping_add_1(@)]

increment_connection_count(d) == [d EXCEPT !.connection_count = saturating_add_1(@)]

set_last_connected(d, timestamp) == [d EXCEPT !.last_connected = timestamp]

set_last_seen(d, timestamp) == [d EXCEPT !.last_seen = timestamp]

get_mac_address(d) == d.mac_address

get_class_of_device(d) == d.class_of_device

get_device_type(d) == d.device_type

get_flags(d) == d.flags

get_connection_params(d) == d.connection_params


(***************************************************************************)
(* BluetoothDeviceList.  A slot holds a record by value.  The list never   *)
(* looks inside a record and hands out no mutable reference to one, so a   *)
(* slot only ever holds a copy of the default record or of a record given  *)
(* to add_device; a slot's content is written as the number of the sample  *)
(* record it is a copy of (SampleRecord).                                  *)
(***************************************************************************)
\* devices: [BluetoothDeviceInfo; 10]
DEVICE_LIST_CAPACITY == 10

\* b"Device 1"
NameDevice1 == <<68, 101, 118, 105, 99, 101, 32, 49>>

\* b"test_key_123"
TestKey == <<116, 101, 115, 116, 95, 107, 101, 121, 95, 49, 50, 51>>

\* record 2 has been given a pairing key
SampleRecord(k) ==
    CASE k = 0 -> BluetoothDeviceInfo_default
      [] k = 1 -> BluetoothDeviceInfo_new(MacA, NameDevice1)[2]
      [] k = 2 -> set_pairing_key(BluetoothDeviceInfo_new(MacB, <<68, 101, 118, 105, 99, 101, 32, 50>>)[2], TestKey)[2]

BluetoothDeviceList_default ==
    [magic        |-> BLUETOOTH_DEVICE_LIST_MAGIC,
     devices      |-> [i \in 1..DEVICE_LIST_CAPACITY |-> 0],
     device_count |-> 0,
     padding      |-> Zeros(3)]

\* faulty variant: the capacity check lets one more through
add_device_off_by_one(l, device_config) ==
    IF l.device_count > Len(l.devices)
    THEN <<Err("DeviceListFull"), l>>
    ELSE <<Ok, [l EXCEPT !.devices = [i \in 1..Len(@) |->
                                         IF i = l.device_count + 1 THEN device_config ELSE @[i]],
                         !.device_count = l.device_count + 1]>>

\* faulty variant: a record that is not valid or whose address is in the list is refused
add_device_validates(l, device_config) ==
    IF l.device_count >= Len(l.devices)
    THEN <<Err("DeviceListFull"), l>>
    ELSE IF \/ ~is_valid(SampleRecord(device_config))
            \/ \E i \in 1..l.device_count :
                   get_mac_address(SampleRecord(l.devices[i]))
                       = get_mac_address(SampleRecord(device_config))
    THEN <<Err("InvalidBluetoothDeviceInfo"), l>>
    ELSE <<Ok, [l EXCEPT !.devices[l.device_count + 1] = device_config,
                         !.device_count = l.device_count + 1]>>

\* <<result, list after the call>>; array index i is sequence index i + 1
add_device(l, device_config) ==
    IF l.device_count >= Len(l.devices)
    THEN <<Err("DeviceListFull"), l>>
    ELSE <<Ok, [l EXCEPT !.devices[l.device_count + 1] = device_config,
                         !.device_count = l.device_count + 1]>>

\* for i in from..to { devices[i] = devices[i + 1]; }
RECURSIVE shift_down(_, _, _)
shift_down(devices, from, to) ==
    IF from >= to
    THEN devices
    ELSE shift_down([devices EXCEPT ![from + 1] = devices[from + 2]], from + 1, to)

\* faulty variant: the shift starts one slot too late
remove_device_shift_late(l, index) ==
    IF index >= l.device_count
    THEN <<Err("IndexOutOfBounds"), l>>
    ELSE <<Ok, [l EXCEPT !.devices = shift_down(@, index + 1, l.device_count - 1),
                         !.device_count = l.device_count - 1]>>

\* faulty variant: the index check lets index = device_count through
remove_device_off_by_one(l, index) ==
    IF index > l.device_count \/ l.device_count = 0
    THEN <<Err("IndexOutOfBounds"), l>>
    ELSE <<Ok, [l EXCEPT !.devices = shift_down(@, index, l.device_count - 1),
                         !.device_count = l.device_count - 1]>>

\* faulty variant: the last record is moved into the gap (a swap-remove)
remove_device_swap(l, index) ==
    IF index >= l.device_count
    THEN <<Err("IndexOutOfBounds"), l>>
    ELSE <<Ok, [l EXCEPT !.devices[index + 1] = l.devices[l.device_count],
                         !.device_count = l.device_count - 1]>>

\* faulty variant: the slot that falls out of the count is reset
remove_device_clears(l, index) ==
    IF index >= l.device_count
    THEN <<Err("IndexOutOfBounds"), l>>
    ELSE <<Ok, [l EXCEPT !.devices = [shift_down(@, index, l.device_count - 1)
                                          EXCEPT ![l.device_count] = 0],
                         !.device_count = l.device_count - 1]>>

remove_device(l, index) ==
    IF index >= l.device_count
    THEN <<Err("IndexOutOfBounds"), l>>
    ELSE <<Ok, [l EXCEPT !.devices = shift_down(@, index, l.device_count - 1),
                         !.device_count = l.device_count - 1]>>

get_device(l, index) ==
    IF index >= l.device_count
    THEN Err("IndexOutOfBounds")
    ELSE OkOf(l.devices[index + 1])

len(l) == l.device_count

is_empty(l) == l.device_count = 0

(***************************************************************************)
(* The byte layout of the #[repr(C)] structures.  A structure is the       *)
(* sequence of its declared fields, in declaration order, each with its    *)
(* size and alignment in bytes (u8 and [u8; n]: alignment 1; u16 and       *)
(* ConnHandle: 2; u32: 4).                                                 *)
(***************************************************************************)
\* the offset of the n-th field: the first multiple of its alignment at or after
\* the end of the field before it; for n = Len(fields) + 1, the end of the last field
RECURSIVE offset_of(_, _)
offset_of(fields, n) ==
    IF n = 1
    THEN 0
    ELSE LET align == IF n <= Len(fields) THEN fields[n].align ELSE 1
         IN  ((offset_of(fields, n - 1) + fields[n - 1].size + align - 1) \div align) * align

\* the largest alignment of a field
align_of(fields) ==
    CHOOSE a \in {fields[n].align : n \in 1..Len(fields)} :
        \A n \in 1..Len(fields) : fields[n].align <= a

\* the end of the last field rounded up to the alignment of the structure
size_of(fields) ==
    ((offset_of(fields, Len(fields) + 1) + align_of(fields) - 1) \div align_of(fields))
        * align_of(fields)

BluetoothConnectionParams_fields ==
    <<[name |-> "connection_handle",     size |-> 2, align |-> 2],
      [name |-> "connection_interval",   size |-> 2, align |-> 2],
      [name |-> "connection_latency",    size |-> 2, align |-> 2],
      [name |-> "supervision_timeout",   size |-> 2, align |-> 2],
      [name |-> "master_clock_accuracy", size |-> 1, align |-> 1],
      [name |-> "link_type",             size |-> 1, align |-> 1],
      [name |-> "encryption_enabled",    size |-> 1, align |-> 1],
      [name |-> "rssi",                  size |-> 1, align |-> 1],
      [name |-> "connected_at",          size |-> 4, align |-> 4],
      [name |-> "last_activity",         size |-> 4, align |-> 4],
      [name |-> "_padding",              size |-> 4, align |-> 1]>>

BluetoothSecurityInfo_fields ==
    <<[name |-> "link_key",          size |-> 16, align |-> 1],
      [name |-> "link_key_type",     size |-> 1,  align |-> 1],
      [name |-> "auth_requirements", size |-> 1,  align |-> 1],
      [name |-> "io_capabilities",   size |-> 1,  align |-> 1],
      [name |-> "security_level",    size |-> 1,  align |-> 1],
      [name |-> "pin_length",        size |-> 1,  align |-> 1],
      [name |-> "link_key_valid",    size |-> 1,  align |-> 1],
      [name |-> "authenticated",     size |-> 1,  align |-> 1],
      [name |-> "encrypted",         size |-> 1,  align |-> 1],
      [name |-> "ssp_supported",     size |-> 1,  align |-> 1],
      [name |-> "mitm_required",     size |-> 1,  align |-> 1],
      [name |-> "_padding",          size |-> 6,  align |-> 1]>>

BluetoothDeviceInfo_fields ==
    <<[name |-> "magic",            size |-> 4,  align |-> 4],
      [name |-> "mac_address",      size |-> 6,  align |-> 1],
      [name |-> "device_name",      size |-> DEVICE_NAME_CAPACITY, align |-> 1],
      [name |-> "device_name_len",  size |-> 1,  align |-> 1],
      [name |-> "pairing_key",      size |-> PAIRING_KEY_CAPACITY, align |-> 1],
      [name |-> "pairing_key_len",  size |-> 1,  align |-> 1],
      [name |-> "class_of_device",  size |-> 3,  align |-> 1],
      [name |-> "device_type",      size |-> 1,  align |-> 1],
      [name |-> "flags",            size |-> 1,  align |-> 1],
      [name |-> "_padding1",        size |-> 1,  align |-> 1],
      [name |-> "connection_count", size |-> 4,  align |-> 4],
      [name |-> "last_seen",        size |-> 4,  align |-> 4],
      [name |-> "last_connected",   size |-> 4,  align |-> 4],
      [name |-> "connection_params",
       size |-> size_of(BluetoothConnectionParams_fields),
       align |-> align_of(BluetoothConnectionParams_fields)],
      [name |-> "security_info",
       size |-> size_of(BluetoothSecurityInfo_fields),
       align |-> align_of(BluetoothSecurityInfo_fields)],
      [name |-> "vendor_id",        size |-> 2,  align |-> 2],
      [name |-> "product_id",       size |-> 2,  align |-> 2],
      [name |-> "version",          size |-> 2,  align |-> 2],
      [name |-> "_padding2",        size |-> 2,  align |-> 2]>>

(***************************************************************************)
(* BluetoothConnectionPhase: the enum's variants, `as u8`, and the         *)
(* decoding of the stored byte.                                            *)
(***************************************************************************)
BluetoothConnectionPhase ==
    {"Idle", "Discovery", "Connecting", "Connected", "Authenticating",
     "SettingUpEncryption", "FullyConnected", "ServiceDiscovery", "Ready",
     "Maintaining", "Reconnecting", "Failed", "Disconnecting"}

\* phase as u8: the discriminants of the #[repr(u8)] enum
as_u8(phase) ==
    CASE phase = "Idle"                -> 0
      [] phase = "Discovery"           -> 1
      [] phase = "Connecting"          -> 2
      [] phase = "Connected"           -> 3
      [] phase = "Authenticating"      -> 4
      [] phase = "SettingUpEncryption" -> 5
      [] phase = "FullyConnected"      -> 6
      [] phase = "ServiceDiscovery"    -> 7
      [] phase = "Ready"               -> 8
      [] phase = "Maintaining"         -> 9
      [] phase = "Reconnecting"        -> 10
      [] phase = "Failed"              -> 11
      [] phase = "Disconnecting"       -> 12

\* matches!(self, Connected | Authenticating | ... | Maintaining)
BluetoothConnectionPhase_is_connected(phase) ==
    phase \in {"Connected", "Authenticating", "SettingUpEncryption", "FullyConnected",
               "ServiceDiscovery", "Ready", "Maintaining"}

\* faulty variant: the phases from Authenticating on count as secure
BluetoothConnectionPhase_is_secure_early(phase) ==
    phase \in {"Authenticating", "SettingUpEncryption", "FullyConnected",
               "ServiceDiscovery", "Ready", "Maintaining"}

BluetoothConnectionPhase_is_secure(phase) ==
    phase \in {"FullyConnected", "ServiceDiscovery", "Ready", "Maintaining"}

BluetoothConnectionPhase_is_ready(phase) == phase \in {"Ready", "Maintaining"}

(***************************************************************************)
(* BluetoothConnectionState.                                               *)
(***************************************************************************)
BluetoothConnectionState_default ==
    [magic            |-> BLUETOOTH_CONNECTION_STATE_MAGIC,
     device_config    |-> BluetoothDeviceInfo_default,
     connection_flags |-> 0,
     link_quality     |-> 0,
     connection_phase |-> as_u8("Idle"),
     padding          |-> Zeros(1)]

\* faulty variant: the handle and the link type of the state outlive the record
set_remote_device_keeps_link(s, device_config) ==
    [s EXCEPT !.device_config =
        [device_config EXCEPT
            !.connection_params.connection_handle =
                s.device_config.connection_params.connection_handle,
            !.connection_params.link_type = s.device_config.connection_params.link_type]]

set_remote_device(s, device_config) == [s EXCEPT !.device_config = device_config]

\* faulty variant: setting the connected flag also forces the phase to Connected
set_connected_syncs_phase(s, connected) ==
    [s EXCEPT !.connection_flags = IF connected THEN BitOr(@, 1) ELSE BitAnd(@, BitNot(1)),
              !.connection_phase = IF connected THEN as_u8("Connected") ELSE @]

set_connected(s, connected) ==
    [s EXCEPT !.connection_flags = IF connected THEN BitOr(@, 1) ELSE BitAnd(@, BitNot(1))]

set_link_quality(s, quality) == [s EXCEPT !.link_quality = quality]

get_remote_device(s) == s.device_config

is_connected(s) == BitAnd(s.connection_flags, 1) # 0

get_link_quality(s) == s.link_quality

\* faulty variant: the flags byte is assigned, not or-ed and and-ed
set_authenticated_assigns(s, authenticated) ==
    [s EXCEPT !.connection_flags = IF authenticated THEN 2 ELSE 0]

set_authenticated(s, authenticated) ==
    [s EXCEPT !.connection_flags = IF authenticated THEN BitOr(@, 2) ELSE BitAnd(@, BitNot(2))]

is_authenticated(s) == BitAnd(s.connection_flags, 2) # 0

set_remote_device_address(s, address) == [s EXCEPT !.device_config.mac_address = address]

\* handle.unwrap_or_default()
set_connection_handle(s, handle) ==
    [s EXCEPT !.device_config.connection_params.connection_handle =
                  IF handle = None THEN ConnHandle_default ELSE handle[1]]

\* faulty variant: the stored handle is returned whatever its value
get_connection_handle_unfiltered(s) ==
    Some(s.device_config.connection_params.connection_handle)

get_connection_handle(s) ==
    IF raw(s.device_config.connection_params.connection_handle) = 0
    THEN None
    ELSE Some(s.device_config.connection_params.connection_handle)

set_link_type(s, link_type) ==
    [s EXCEPT !.device_config.connection_params.link_type = link_type]

get_link_type(s) == s.device_config.connection_params.link_type

set_connection_phase(s, phase) == [s EXCEPT !.connection_phase = as_u8(phase)]

\* faulty variant: the byte 12 has no arm and falls back to Idle
get_connection_phase_short(s) ==
    CASE s.connection_phase = 1  -> "Discovery"
      [] s.connection_phase = 2  -> "Connecting"
      [] s.connection_phase = 3  -> "Connected"
      [] s.connection_phase = 4  -> "Authenticating"
      [] s.connection_phase = 5  -> "SettingUpEncryption"
      [] s.connection_phase = 6  -> "FullyConnected"
      [] s.connection_phase = 7  -> "ServiceDiscovery"
      [] s.connection_phase = 8  -> "Ready"
      [] s.connection_phase = 9  -> "Maintaining"
      [] s.connection_phase = 10 -> "Reconnecting"
      [] s.connection_phase = 11 -> "Failed"
      [] OTHER                   -> "Idle"

get_connection_phase(s) ==
    CASE s.connection_phase = 1  -> "Discovery"
      [] s.connection_phase = 2  -> "Connecting"
      [] s.connection_phase = 3  -> "Connected"
      [] s.connection_phase = 4  -> "Authenticating"
      [] s.connection_phase = 5  -> "SettingUpEncryption"
      [] s.connection_phase = 6  -> "FullyConnected"
      [] s.connection_phase = 7  -> "ServiceDiscovery"
      [] s.connection_phase = 8  -> "Ready"
      [] s.connection_phase = 9  -> "Maintaining"
      [] s.connection_phase = 10 -> "Reconnecting"
      [] s.connection_phase = 11 -> "Failed"
      [] s.connection_phase = 12 -> "Disconnecting"
      [] OTHER                   -> "Idle"

is_valid_transition(current, next) ==
    CASE current = "Idle"                -> next \in {"Discovery", "Connecting"}
      [] current = "Discovery"           -> next = "Connecting"
      [] current = "Connecting"          -> next \in {"Connected", "Failed"}
      [] current = "Connected"           -> next \in {"Authenticating", "ServiceDiscovery", "Disconnecting"}
      [] current = "Authenticating"      -> next \in {"SettingUpEncryption", "Failed", "Disconnecting"}
      [] current = "SettingUpEncryption" -> next \in {"FullyConnected", "Failed", "Disconnecting"}
      [] current = "FullyConnected"      -> next \in {"ServiceDiscovery", "Ready", "Disconnecting"}
      [] current = "ServiceDiscovery"    -> next \in {"Ready", "Failed", "Disconnecting"}
      [] current = "Ready"               -> next \in {"Maintaining", "Disconnecting"}
      [] current = "Maintaining"         -> next \in {"Reconnecting", "Disconnecting"}
      [] current = "Reconnecting"        -> next \in {"Connecting", "Failed"}
      [] current = "Failed"              -> next = "Reconnecting"
      [] current = "Disconnecting"       -> FALSE

\* faulty variant: the arguments of is_valid_transition swapped
advance_to_phase_swapped(s, next_phase) ==
    LET current == get_connection_phase(s)
        valid_transition == next_phase = "Idle" \/ is_valid_transition(next_phase, current)
    IN  <<valid_transition,
          IF valid_transition THEN set_connection_phase(s, next_phase) ELSE s>>

\* faulty variant: the phase is stored before the verdict is looked at
advance_to_phase_stores_first(s, next_phase) ==
    LET current == get_connection_phase(s)
        valid_transition == next_phase = "Idle" \/ is_valid_transition(current, next_phase)
    IN  <<valid_transition, set_connection_phase(s, next_phase)>>

\* faulty variant: no rule for Idle, only the table
advance_to_phase_table_only(s, next_phase) ==
    LET current == get_connection_phase(s)
        valid_transition == is_valid_transition(current, next_phase)
    IN  <<valid_transition,
          IF valid_transition THEN set_connection_phase(s, next_phase) ELSE s>>

\* faulty variant: Ready has no way on but Disconnecting
advance_to_phase_ready_is_last(s, next_phase) ==
    LET current == get_connection_phase(s)
        valid_transition ==
            \/ next_phase = "Idle"
            \/ /\ is_valid_transition(current, next_phase)
               /\ ~(current = "Ready" /\ next_phase = "Maintaining")
    IN  <<valid_transition,
          IF valid_transition THEN set_connection_phase(s, next_phase) ELSE s>>

\* faulty variant: Disconnecting may go on to Reconnecting
advance_to_phase_reconnects(s, next_phase) ==
    LET current == get_connection_phase(s)
        valid_transition ==
            \/ next_phase = "Idle"
            \/ is_valid_transition(current, next_phase)
            \/ (current = "Disconnecting" /\ next_phase = "Reconnecting")
    IN  <<valid_transition,
          IF valid_transition THEN set_connection_phase(s, next_phase) ELSE s>>

\* faulty variant: Idle cannot go to Discovery
advance_to_phase_no_discovery(s, next_phase) ==
    LET current == get_connection_phase(s)
        valid_transition ==
            \/ next_phase = "Idle"
            \/ /\ is_valid_transition(current, next_phase)
               /\ next_phase # "Discovery"
    IN  <<valid_transition,
          IF valid_transition THEN set_connection_phase(s, next_phase) ELSE s>>

\* faulty variant: Failed may go straight back to Connected
advance_to_phase_resumes(s, next_phase) ==
    LET current == get_connection_phase(s)
        valid_transition ==
            \/ next_phase = "Idle"
            \/ is_valid_transition(current, next_phase)
            \/ (current = "Failed" /\ next_phase = "Connected")
    IN  <<valid_transition,
          IF valid_transition THEN set_connection_phase(s, next_phase) ELSE s>>

\* faulty variant: Discovery may go straight to Connected
advance_to_phase_skips_connecting(s, next_phase) ==
    LET current == get_connection_phase(s)
        valid_transition ==
            \/ next_phase = "Idle"
            \/ is_valid_transition(current, next_phase)
            \/ (current = "Discovery" /\ next_phase = "Connected")
    IN  <<valid_transition,
          IF valid_transition THEN set_connection_phase(s, next_phase) ELSE s>>

\* <<the value returned, state after the call>>
advance_to_phase(s, next_phase) ==
    LET current == get_connection_phase(s)
        valid_transition == next_phase = "Idle" \/ is_valid_transition(current, next_phase)
    IN  <<valid_transition,
          IF valid_transition THEN set_connection_phase(s, next_phase) ELSE s>>

(***************************************************************************)
(* The values the connection-state operations are called with.             *)
(***************************************************************************)
\* b"Dev"
NameDev == <<68, 101, 118>>

\* params.connection_handle = ConnHandle::new(0x0042); params.rssi = -50
ParamsSample ==
    [BluetoothConnectionParams_default EXCEPT
        !.connection_handle = ConnHandle_new(66)[2], !.rssi = -50]

(***************************************************************************)
(* The calls on the BluetoothConnectionState.                              *)
(***************************************************************************)
CsCall(op, arg, ret, after) ==
    /\ call = NoCall
    /\ cs' = after
    /\ pre_cs' = cs
    /\ call' = [op |-> op, arg |-> arg, ret |-> ret]
    /\ UNCHANGED <<list, pre_list, abs_list, dev, pre_dev, wifi, pre_wifi, info, pre_info>>

AdvanceToPhase ==
    \E next_phase \in BluetoothConnectionPhase :
        LET r == advance_to_phase(cs, next_phase)
        IN  CsCall("advance_to_phase", next_phase, r[1], r[2])

SetConnectionPhase ==
    \E phase \in BluetoothConnectionPhase :
        CsCall("set_connection_phase", phase, <<>>, set_connection_phase(cs, phase))

\* with BluetoothDeviceInfo::new(&mac, b"Dev") as it is returned, and as it is
\* after update_connection_params(&params) with the handle 0x0042
SetRemoteDevice ==
    \E d \in {BluetoothDeviceInfo_new(MacA, NameDev)[2]}
              \cup {outcome[2] : outcome \in
                        update_connection_params(BluetoothDeviceInfo_new(MacA, NameDev)[2],
                                                 ParamsSample)} :
        CsCall("set_remote_device", d, <<>>, set_remote_device(cs, d))

SetConnected ==
    \E b \in BOOLEAN :
        CsCall("set_connected", b, <<>>, set_connected(cs, b))

SetAuthenticated ==
    \E b \in BOOLEAN :
        CsCall("set_authenticated", b, <<>>, set_authenticated(cs, b))

SetLinkQuality ==
    \E q \in {0, 85} :
        CsCall("set_link_quality", q, <<>>, set_link_quality(cs, q))

\* with None, ConnHandle::default() and every handle that ConnHandle::new or
\* ConnHandle::from returns for 0, 0x0042, 0x0EFF, 0x0F00 and 0xFFFF
SetConnectionHandle ==
    \E h \in {None, Some(ConnHandle_default)}
              \cup {Some(r[2]) : r \in
                        ({ConnHandle_new(val) : val \in {0, 66, CONN_HANDLE_MAX}}
                         \cup {ConnHandle_from(val) : val \in {CONN_HANDLE_MAX + 1, 65535}})
                        \ {Panic}} :
        CsCall("set_connection_handle", h, <<>>, set_connection_handle(cs, h))

SetLinkType ==
    \E t \in {1} :
        CsCall("set_link_type", t, <<>>, set_link_type(cs, t))

SetRemoteDeviceAddress ==
    \E a \in {MacB} :
        CsCall("set_remote_device_address", a, <<>>, set_remote_device_address(cs, a))

(***************************************************************************)
(* WifiConfig (src/src/wifi.rs): the SSID and the password in two          *)
(* fixed buffers, each with its length byte.                               *)
(***************************************************************************)
\* 0x5749_4649
WIFI_CONFIG_MAGIC == 1464420937

WifiConfig_default ==
    [magic        |-> WIFI_CONFIG_MAGIC,
     ssid         |-> Zeros(32),
     password     |-> Zeros(64),
     ssid_len     |-> 0,
     password_len |-> 0,
     padding      |-> Zeros(2)]

\* faulty variant: each value is checked and stored in turn
set_credentials_in_turn(w, ssid, password) ==
    IF Len(ssid) > 32
    THEN <<Err("CredentialLengthExceeded"), w>>
    ELSE LET w1 == [w EXCEPT !.ssid_len = Len(ssid) % 256,
                             !.ssid = copy_to_prefix(fill(@, 0), ssid)]
         IN  IF Len(password) > 64
             THEN <<Err("CredentialLengthExceeded"), w1>>
             ELSE <<Ok, [w1 EXCEPT !.password_len = Len(password) % 256,
                                   !.password = copy_to_prefix(fill(@, 0), password)]>>

\* <<result, config after the call>>
set_credentials(w, ssid, password) ==
    IF Len(ssid) > 32 \/ Len(password) > 64
    THEN <<Err("CredentialLengthExceeded"), w>>
    ELSE <<Ok, [w EXCEPT !.ssid_len = Len(ssid) % 256,
                         !.password_len = Len(password) % 256,
                         !.ssid = copy_to_prefix(fill(@, 0), ssid),
                         !.password = copy_to_prefix(fill(@, 0), password)]>>

get_ssid(w) == SubSeq(w.ssid, 1, w.ssid_len)

get_password(w) == SubSeq(w.password, 1, w.password_len)

(***************************************************************************)
(* DeviceInfo (src/src/device.rs): a hardware identifier and a secret in   *)
(* two fixed buffers, without length bytes.                                *)
(***************************************************************************)
\* 0x0044_4556
DEVICE_INFO_MAGIC == 4474198

DeviceInfo_default ==
    [magic       |-> DEVICE_INFO_MAGIC,
     hardware_id |-> Zeros(32),
     secret      |-> Zeros(128)]

\* faulty variant: the buffer is cleared before the copy
set_hardware_id_cleared(i, hardware_id) ==
    IF Len(hardware_id) > 32
    THEN <<Err("IdentityLengthExceeded"), i>>
    ELSE <<Ok, [i EXCEPT !.hardware_id = copy_to_prefix(fill(@, 0), hardware_id)]>>

\* <<result, info after the call>>
set_hardware_id(i, hardware_id) ==
    IF Len(hardware_id) > 32
    THEN <<Err("IdentityLengthExceeded"), i>>
    ELSE <<Ok, [i EXCEPT !.hardware_id = copy_to_prefix(@, hardware_id)]>>

set_secret(i, secret) ==
    IF Len(secret) > 128
    THEN <<Err("IdentityLengthExceeded"), i>>
    ELSE <<Ok, [i EXCEPT !.secret = copy_to_prefix(@, secret)]>>

(***************************************************************************)
(* Specifications.  Every object starts as its Default::default().         *)
(***************************************************************************)
Init ==
    /\ cs = BluetoothConnectionState_default
    /\ pre_cs = BluetoothConnectionState_default
    /\ list = BluetoothDeviceList_default
    /\ pre_list = BluetoothDeviceList_default
    /\ abs_list = <<>>
    /\ dev = BluetoothDeviceInfo_default
    /\ pre_dev = BluetoothDeviceInfo_default
    /\ wifi = WifiConfig_default
    /\ pre_wifi = WifiConfig_default
    /\ info = DeviceInfo_default
    /\ pre_info = DeviceInfo_default
    /\ call = NoCall

\* the call ended in a panic; only these operations have one among their outcomes
Panicked ==
    /\ call.op \in {"ConnHandle::new", "ConnHandle::from", "update_connection_params"}
    /\ call.ret = Panic

\* the caller takes the result of the call; the objects stay as the call left
\* them.  A call that panicked does not return: the run ends there.
Return ==
    /\ call # NoCall
    /\ ~Panicked
    /\ call' = NoCall
    /\ pre_cs' = cs
    /\ pre_list' = list
    /\ pre_dev' = dev
    /\ pre_wifi' = wifi
    /\ pre_info' = info
    /\ UNCHANGED <<cs, list, abs_list, dev, wifi, info>>

NextConn ==
    \/ AdvanceToPhase
    \/ SetConnectionPhase
    \/ SetRemoteDevice
    \/ SetConnected
    \/ SetAuthenticated
    \/ SetLinkQuality
    \/ SetConnectionHandle
    \/ SetLinkType
    \/ SetRemoteDeviceAddress
    \/ Return

\* any sequence of the public operations of one BluetoothConnectionState
SpecConn == Init /\ [][NextConn]_vars

NextFsm ==
    \/ AdvanceToPhase
    \/ Return

\* a new BluetoothConnectionState whose phase changes through advance_to_phase only
SpecFsm == Init /\ [][NextFsm]_vars

(***************************************************************************)
(* The calls on the BluetoothDeviceList, and the abstract sequence kept    *)
(* beside it: it starts empty, an add appends while its length is below    *)
(* 10, a remove deletes the element at an index below its length.          *)
(***************************************************************************)
\* the largest index get_device and remove_device are called with
MaxIndex == 10

AbsAdd(seq, x) == IF Len(seq) < 10 THEN Append(seq, x) ELSE seq

AbsRemove(seq, i) ==
    IF i < Len(seq)
    THEN [j \in 1..(Len(seq) - 1) |-> IF j <= i THEN seq[j] ELSE seq[j + 1]]
    ELSE seq

ListCall(op, arg, ret, after, abs_after) ==
    /\ call = NoCall
    /\ list' = after
    /\ pre_list' = list
    /\ abs_list' = abs_after
    /\ call' = [op |-> op, arg |-> arg, ret |-> ret]
    /\ UNCHANGED <<cs, pre_cs, dev, pre_dev, wifi, pre_wifi, info, pre_info>>

AddDevice ==
    \E k \in {1, 2} :
        LET r == add_device(list, k)
        IN  ListCall("add_device", k, r[1], r[2], AbsAdd(abs_list, k))

RemoveDevice ==
    \E index \in 0..MaxIndex :
        LET r == remove_device(list, index)
        IN  ListCall("remove_device", index, r[1], r[2], AbsRemove(abs_list, index))

GetDevice ==
    \E index \in 0..MaxIndex :
        ListCall("get_device", index, get_device(list, index), list, abs_list)

NextList ==
    \/ AddDevice
    \/ RemoveDevice
    \/ GetDevice
    \/ Return

\* any sequence of add_device, remove_device and get_device on one list
SpecList == Init /\ [][NextList]_vars

\* add_device with BluetoothDeviceInfo::default(), whose address is all zero, and
\* with record 1, again and again
AddAnyDevice ==
    \E k \in {0, 1} :
        LET r == add_device(list, k)
        IN  ListCall("add_device", k, r[1], r[2], AbsAdd(abs_list, k))

NextAnyList ==
    \/ AddAnyDevice
    \/ RemoveDevice
    \/ Return

\* any sequence of add_device and remove_device on one list, the records added
\* being invalid or one and the same
SpecAnyList == Init /\ [][NextAnyList]_vars

\* add_device with record 1, again and again
AddSameDevice ==
    LET r == add_device(list, 1)
    IN  ListCall("add_device", 1, r[1], r[2], AbsAdd(abs_list, 1))

NextBytes ==
    \/ SetConnectionPhase
    \/ AdvanceToPhase
    \/ AddSameDevice
    \/ RemoveDevice
    \/ Return

\* any sequence of set_connection_phase and advance_to_phase on one connection
\* state and of add_device and remove_device on one list
SpecBytes == Init /\ [][NextBytes]_vars

(***************************************************************************)
(* The calls on the BluetoothDeviceInfo.  A name or key of n bytes is the  *)
(* sequence Bytes(n): no byte is zero, and two inputs of different lengths *)
(* differ at every index they share.                                       *)
(***************************************************************************)
\* the longest device name and pairing key the setters are called with
MaxNameLen == 33

MaxKeyLen == 65

Bytes(n) == [i \in 1..n |-> ((i + n) % 255) + 1]

NameInputs == {Bytes(n) : n \in 0..MaxNameLen}

KeyInputs == {Bytes(n) : n \in 0..MaxKeyLen}

DevCall(op, arg, ret, after) ==
    /\ call = NoCall
    /\ dev' = after
    /\ pre_dev' = dev
    /\ call' = [op |-> op, arg |-> arg, ret |-> ret]
    /\ UNCHANGED <<cs, pre_cs, list, pre_list, abs_list, wifi, pre_wifi, info, pre_info>>

\* let device = BluetoothDeviceInfo::new(..): on Err there is no new record
\* and the caller keeps the one it has
\* with an empty name, one at capacity and one a byte over it
NewDevice ==
    \E name \in {Bytes(n) : n \in {0, 32, 33}} :
        LET r == BluetoothDeviceInfo_new(MacA, name)
        IN  DevCall("new", name, IF r[1] = "Ok" THEN Ok ELSE r,
                    IF r[1] = "Ok" THEN r[2] ELSE dev)

SetDeviceName ==
    \E name \in NameInputs :
        LET r == set_device_name(dev, name)
        IN  DevCall("set_device_name", name, r[1], r[2])

SetPairingKey ==
    \E key \in KeyInputs :
        LET r == set_pairing_key(dev, key)
        IN  DevCall("set_pairing_key", key, r[1], r[2])

\* with an empty value, one at capacity and one a byte over it, for each
SetDeviceInfo ==
    \E name \in {Bytes(n) : n \in {0, 32, 33}}, key \in {Bytes(n) : n \in {0, 64, 65}} :
        LET r == set_device_info(dev, name, key)
        IN  DevCall("set_device_info", <<name, key>>, r[1], r[2])

NextDev ==
    \/ NewDevice
    \/ SetDeviceName
    \/ SetPairingKey
    \/ SetDeviceInfo
    \/ Return

\* any sequence of new, set_device_name, set_pairing_key and set_device_info
SpecDev == Init /\ [][NextDev]_vars

(***************************************************************************)
(* ConnHandle values: construction from every u16, and the conversions of  *)
(* every handle that construction returns.                                 *)
(***************************************************************************)
ValueCall(op, arg, ret) ==
    /\ call = NoCall
    /\ call' = [op |-> op, arg |-> arg, ret |-> ret]
    /\ UNCHANGED <<cs, pre_cs, list, pre_list, abs_list, dev, pre_dev, wifi, pre_wifi, info, pre_info>>

ConnHandleNew ==
    /\ call = NoCall
    /\ \E val \in 0..65535 : ValueCall("ConnHandle::new", val, ConnHandle_new(val))

ConnHandleFrom ==
    /\ call = NoCall
    /\ \E val \in 0..65535 : ValueCall("ConnHandle::from", val, ConnHandle_from(val))

ConnHandleRaw ==
    /\ call = NoCall
    /\ \E handle \in {r[2] : r \in {ConnHandle_new(val) : val \in 0..65535} \ {Panic}} : ValueCall("raw", handle, raw(handle))

U16From ==
    /\ call = NoCall
    /\ \E handle \in {r[2] : r \in {ConnHandle_new(val) : val \in 0..65535} \ {Panic}} : ValueCall("u16::from", handle, u16_from(handle))

NextHandle ==
    \/ ConnHandleNew
    \/ ConnHandleFrom
    \/ ConnHandleRaw
    \/ U16From
    \/ Return

\* any sequence of ConnHandle constructions and conversions
SpecHandle == Init /\ [][NextHandle]_vars

(***************************************************************************)
(* set_class_of_device with every value of byte 1 under three settings of  *)
(* bytes 0 and 2.                                                          *)
(***************************************************************************)
\* [0x04, _, 0x24], [0x00, _, 0x00], [0xFF, _, 0xFF]
CodInputs == {<<o[1], b, o[2]>> : o \in {<<4, 36>>, <<0, 0>>, <<255, 255>>}, b \in 0..255}

SetClassOfDevice ==
    /\ call = NoCall
    /\ \E cod \in CodInputs :
           DevCall("set_class_of_device", cod, <<>>, set_class_of_device(dev, cod))

NextCod ==
    \/ SetClassOfDevice
    \/ Return

\* any sequence of set_class_of_device on one record
SpecCod == Init /\ [][NextCod]_vars

(***************************************************************************)
(* The flag operations with each of the eight flags.                       *)
(***************************************************************************)
AllFlags ==
    {FLAG_PAIRED, FLAG_TRUSTED, FLAG_AUDIO, FLAG_INPUT, FLAG_FILE_TRANSFER,
     FLAG_CONNECTED, FLAG_AUTO_RECONNECT, FLAG_RECENTLY_DISCOVERED}

\* with 0x00, 0x21, 0xDE, 0xFF
SetFlags ==
    \E flags \in {0, 33, 222, 255} : DevCall("set_flags", flags, <<>>, set_flags(dev, flags))

AddFlag ==
    \E flag \in AllFlags : DevCall("add_flag", flag, <<>>, add_flag(dev, flag))

RemoveFlag ==
    \E flag \in AllFlags : DevCall("remove_flag", flag, <<>>, remove_flag(dev, flag))

HasFlag ==
    \E flag \in AllFlags : DevCall("has_flag", flag, has_flag(dev, flag), dev)

NextFlags ==
    \/ SetFlags
    \/ AddFlag
    \/ RemoveFlag
    \/ HasFlag
    \/ Return

\* any sequence of set_flags, add_flag, remove_flag and has_flag
SpecFlags == Init /\ [][NextFlags]_vars

(***************************************************************************)
(* The merges: update_connection_params and update_security_info on a      *)
(* record whose counter and flags have been set.  The counter is followed  *)
(* for MaxCount increments above a value below 0xFFFE in its low half, and *)
(* without limit from there to 0xFFFF, where the next increment carries or *)
(* overflows.                                                              *)
(***************************************************************************)
MaxCount == 2

CountBelowBound(count) == count[2] < MaxCount \/ count[2] >= 65534

\* security.authenticated = 1; security.encrypted = 1
SecuritySample ==
    [BluetoothSecurityInfo_default EXCEPT !.authenticated = 1, !.encrypted = 1]

\* with 0, 0x0000FFFF, 0xFFFFFFFE, 0xFFFFFFFF
SetConnectionCount ==
    \E count \in {<<0, 0>>, <<0, 65535>>, <<65535, 65534>>, u32_MAX} :
        DevCall("set_connection_count", count, <<>>, set_connection_count(dev, count))

UpdateConnectionParams ==
    /\ CountBelowBound(dev.connection_count)
    /\ \E params \in {BluetoothConnectionParams_default, ParamsSample} :
           \E outcome \in update_connection_params(dev, params) :
               DevCall("update_connection_params", params, outcome[1], outcome[2])

\* authenticated is 0, 1 or 0xFF; with authenticated 0 the info still differs
\* from the default
UpdateSecurityInfo ==
    \E security \in {BluetoothSecurityInfo_default,
                      SecuritySample,
                      [BluetoothSecurityInfo_default EXCEPT !.encrypted = 1, !.security_level = 4],
                      [BluetoothSecurityInfo_default EXCEPT !.authenticated = 255]} :
        DevCall("update_security_info", security, <<>>, update_security_info(dev, security))

InfoIncrementConnectionCount ==
    /\ CountBelowBound(dev.connection_count)
    /\ DevCall("increment_connection_count", <<>>, <<>>, increment_connection_count(dev))

NextMerge ==
    \/ NewDevice
    \/ SetConnectionCount
    \/ InfoIncrementConnectionCount
    \/ SetFlags
    \/ UpdateConnectionParams
    \/ UpdateSecurityInfo
    \/ Return

\* any sequence of the merges, set_connection_count, increment_connection_count,
\* set_flags and new
SpecMerge == Init /\ [][NextMerge]_vars

(***************************************************************************)
(* Every constructor and mutator of the BluetoothDeviceInfo, each with a   *)
(* few values, in any order.                                               *)
(***************************************************************************)
\* let now = 1234567890u32
Now == 1234567890

InfoDefault ==
    DevCall("default", <<>>, <<>>, BluetoothDeviceInfo_default)

InfoZeroed ==
    DevCall("zeroed", <<>>, <<>>, BluetoothDeviceInfo_zeroed)

\* on Err there is no new record and the caller keeps the one it has
InfoNew ==
    \E mac \in {Zeros(6), MacA}, name \in {NameDev, Bytes(32), Bytes(33)} :
        LET r == BluetoothDeviceInfo_new(mac, name)
        IN  DevCall("new", <<mac, name>>, IF r[1] = "Ok" THEN Ok ELSE r,
                    IF r[1] = "Ok" THEN r[2] ELSE dev)

InfoSetMacAddress ==
    \E mac \in {Zeros(6), MacA} :
        DevCall("set_mac_address", mac, <<>>, set_mac_address(dev, mac))

InfoSetDeviceName ==
    LET r == set_device_name(dev, NameDevice1)
    IN  DevCall("set_device_name", NameDevice1, r[1], r[2])

InfoSetPairingKey ==
    LET r == set_pairing_key(dev, TestKey)
    IN  DevCall("set_pairing_key", TestKey, r[1], r[2])

InfoSetDeviceInfo ==
    \E key \in {TestKey, Bytes(65)} :
        LET r == set_device_info(dev, NameDevice1, key)
        IN  DevCall("set_device_info", <<NameDevice1, key>>, r[1], r[2])

InfoSetClassOfDevice ==
    \E cod \in {<<4, 16, 36>>, <<0, 252, 0>>, <<0, 4, 0>>} :
        DevCall("set_class_of_device", cod, <<>>, set_class_of_device(dev, cod))

InfoUpdateConnectionParams ==
    /\ CountBelowBound(dev.connection_count)
    /\ \E outcome \in update_connection_params(dev, ParamsSample) :
           DevCall("update_connection_params", ParamsSample, outcome[1], outcome[2])

InfoUpdateSecurityInfo ==
    DevCall("update_security_info", SecuritySample, <<>>,
            update_security_info(dev, SecuritySample))

InfoSetFlags ==
    DevCall("set_flags", 0, <<>>, set_flags(dev, 0))

InfoAddFlag ==
    DevCall("add_flag", FLAG_PAIRED, <<>>, add_flag(dev, FLAG_PAIRED))

InfoRemoveFlag ==
    \E flag \in {FLAG_PAIRED, FLAG_CONNECTED} :
        DevCall("remove_flag", flag, <<>>, remove_flag(dev, flag))

InfoUpdateLastSeen ==
    DevCall("update_last_seen", Now, <<>>, update_last_seen(dev, Now))

InfoUpdateLastConnected ==
    DevCall("update_last_connected", Now, <<>>, update_last_connected(dev, Now))

InfoSetLastSeen ==
    DevCall("set_last_seen", 0, <<>>, set_last_seen(dev, 0))

InfoSetLastConnected ==
    DevCall("set_last_connected", 0, <<>>, set_last_connected(dev, 0))

InfoSetConnectionCount ==
    DevCall("set_connection_count", <<0, 0>>, <<>>, set_connection_count(dev, <<0, 0>>))

NextInfo ==
    \/ InfoDefault
    \/ InfoZeroed
    \/ InfoNew
    \/ InfoSetMacAddress
    \/ InfoSetDeviceName
    \/ InfoSetPairingKey
    \/ InfoSetDeviceInfo
    \/ InfoSetClassOfDevice
    \/ InfoUpdateConnectionParams
    \/ InfoUpdateSecurityInfo
    \/ InfoSetFlags
    \/ InfoAddFlag
    \/ InfoRemoveFlag
    \/ InfoUpdateLastSeen
    \/ InfoUpdateLastConnected
    \/ InfoSetLastSeen
    \/ InfoSetLastConnected
    \/ InfoSetConnectionCount
    \/ InfoIncrementConnectionCount
    \/ Return

\* any sequence of the constructors and mutators of one BluetoothDeviceInfo
SpecInfo == Init /\ [][NextInfo]_vars

(***************************************************************************)
(* The calls on the WifiConfig: set_credentials with an SSID of 0, 7, 11,  *)
(* 32 or 33 bytes and a password of 0, 12, 17, 64 or 65 bytes.             *)
(***************************************************************************)
SetCredentials ==
    /\ call = NoCall
    /\ \E ssid \in {Bytes(n) : n \in {0, 7, 11, 32, 33}},
          password \in {Bytes(n) : n \in {0, 12, 17, 64, 65}} :
           LET r == set_credentials(wifi, ssid, password)
           IN  /\ wifi' = r[2]
               /\ pre_wifi' = wifi
               /\ call' = [op |-> "set_credentials", arg |-> <<ssid, password>>, ret |-> r[1]]
    /\ UNCHANGED <<cs, pre_cs, list, pre_list, abs_list, dev, pre_dev, info, pre_info>>

NextWifi ==
    \/ SetCredentials
    \/ Return

\* any sequence of set_credentials on one WifiConfig
SpecWifi == Init /\ [][NextWifi]_vars

(***************************************************************************)
(* The calls on the DeviceInfo: set_hardware_id with 0, 11, 15, 32 or 33   *)
(* bytes and set_secret with 0, 10, 15, 128 or 129 bytes.                  *)
(***************************************************************************)
SetHardwareId ==
    /\ call = NoCall
    /\ \E hardware_id \in {Bytes(n) : n \in {0, 11, 15, 32, 33}} :
           LET r == set_hardware_id(info, hardware_id)
           IN  /\ info' = r[2]
               /\ pre_info' = info
               /\ call' = [op |-> "set_hardware_id", arg |-> hardware_id, ret |-> r[1]]
    /\ UNCHANGED <<cs, pre_cs, list, pre_list, abs_list, dev, pre_dev, wifi, pre_wifi>>

SetSecret ==
    /\ call = NoCall
    /\ \E secret \in {Bytes(n) : n \in {0, 10, 15, 128, 129}} :
           LET r == set_secret(info, secret)
           IN  /\ info' = r[2]
               /\ pre_info' = info
               /\ call' = [op |-> "set_secret", arg |-> secret, ret |-> r[1]]
    /\ UNCHANGED <<cs, pre_cs, list, pre_list, abs_list, dev, pre_dev, wifi, pre_wifi>>

NextIdentity ==
    \/ SetHardwareId
    \/ SetSecret
    \/ Return

\* any sequence of set_hardware_id and set_secret on one DeviceInfo
SpecIdentity == Init /\ [][NextIdentity]_vars

(***************************************************************************)
(* The connection-phase state machine.                                     *)
(***************************************************************************)
\* the transition table as the specification states it
AllowedNext(p) ==
    CASE p = "Idle"                -> {"Discovery", "Connecting"}
      [] p = "Discovery"           -> {"Connecting"}
      [] p = "Connecting"          -> {"Connected", "Failed"}
      [] p = "Connected"           -> {"Authenticating", "ServiceDiscovery", "Disconnecting"}
      [] p = "Authenticating"      -> {"SettingUpEncryption", "Failed", "Disconnecting"}
      [] p = "SettingUpEncryption" -> {"FullyConnected", "Failed", "Disconnecting"}
      [] p = "FullyConnected"      -> {"ServiceDiscovery", "Ready", "Disconnecting"}
      [] p = "ServiceDiscovery"    -> {"Ready", "Failed", "Disconnecting"}
      [] p = "Ready"               -> {"Maintaining", "Disconnecting"}
      [] p = "Maintaining"         -> {"Reconnecting", "Disconnecting"}
      [] p = "Reconnecting"        -> {"Connecting", "Failed"}
      [] p = "Failed"              -> {"Reconnecting"}
      [] p = "Disconnecting"       -> {}

\* the phase before and after the last call
PhaseBefore == get_connection_phase(pre_cs)

PhaseAfter == get_connection_phase(cs)

C3_IdleAlwaysAccepted ==
    (call.op = "advance_to_phase" /\ call.arg = "Idle") =>
        (call.ret = TRUE /\ PhaseAfter = "Idle")

\* the reset from Disconnecting, whose table row is empty
C3_Witness ==
    /\ call.op = "advance_to_phase"
    /\ call.arg = "Idle"
    /\ PhaseBefore = "Disconnecting"
    /\ call.ret = TRUE
    /\ PhaseAfter = "Idle"

\* C4 as stated: whatever public operation is called, a change of the phase
\* from p to q has q = Idle or q in the table's allowed-next set of p.
C4_EveryPhaseChangeInTable ==
    PhaseAfter # PhaseBefore =>
        (PhaseAfter = "Idle" \/ PhaseAfter \in AllowedNext(PhaseBefore))

\* C4, amended: a change of the phase made by any public operation other
\* than set_connection_phase has q = Idle or q in the allowed-next set of p;
\* set_connection_phase(q) stores q whatever the current phase is.
C4_PhaseChangeInTableUnlessSet ==
    /\ (PhaseAfter # PhaseBefore /\ call.op # "set_connection_phase") =>
           (PhaseAfter = "Idle" \/ PhaseAfter \in AllowedNext(PhaseBefore))
    /\ call.op = "set_connection_phase" => PhaseAfter = call.arg

\* a change of phase by advance_to_phase after the setters have all acted
C4_Witness ==
    /\ call.op = "advance_to_phase"
    /\ PhaseAfter # PhaseBefore
    /\ PhaseAfter = "Authenticating"
    /\ cs.connection_flags = 3
    /\ cs.link_quality = 85
    /\ cs.device_config.mac_address = MacB
    /\ cs.device_config.connection_params.link_type = 1

(***************************************************************************)
(* The device list.                                                        *)
(***************************************************************************)
\* the records the list holds, in order: get_device(0), ..., get_device(len - 1)
Records(l) == [i \in 1..len(l) |-> get_device(l, i - 1)[2]]

\* C5: len() <= 10 in every reachable state of the list, and add_device on a
\* list with len() = 10 fails with DeviceListFull and leaves len() and every
\* stored record as they were.
C5_LenBoundedAndFullRejects ==
    /\ len(list) <= 10
    /\ (call.op = "add_device" /\ len(pre_list) = 10) =>
           /\ call.ret = Err("DeviceListFull")
           /\ len(list) = len(pre_list)
           /\ Records(list) = Records(pre_list)
           /\ list.devices = pre_list.devices

\* the eleventh add
C5_Witness ==
    /\ call.op = "add_device"
    /\ len(pre_list) = 10
    /\ call.ret = Err("DeviceListFull")
    /\ len(list) = 10

\* C6: remove_device(i) on a list of n records with i < n succeeds, len()
\* becomes n - 1, the records at indices below i stay where they were and the
\* record formerly at each index j with i < j < n is now at index j - 1.
C6_RemoveShiftsDown ==
    (call.op = "remove_device" /\ call.arg < len(pre_list)) =>
        LET n == len(pre_list)
            i == call.arg
        IN  /\ call.ret = Ok
            /\ len(list) = n - 1
            /\ \A j \in 0..(i - 1) : get_device(list, j) = get_device(pre_list, j)
            /\ \A j \in (i + 1)..(n - 1) : get_device(list, j - 1) = get_device(pre_list, j)

\* the middle record of three is removed, and its neighbours differ from it
C6_Witness ==
    /\ call.op = "remove_device"
    /\ call.arg = 1
    /\ len(pre_list) = 3
    /\ Records(pre_list) = <<1, 2, 1>>
    /\ Records(list) = <<1, 1>>

\* C7: get_device(i) and remove_device(i) with i >= len() fail with
\* IndexOutOfBounds, and the count and the records at indices below len() are
\* unchanged.
C7_OutOfBoundsRejected ==
    (call.op \in {"get_device", "remove_device"} /\ call.arg >= len(pre_list)) =>
        /\ call.ret = Err("IndexOutOfBounds")
        /\ len(list) = len(pre_list)
        /\ Records(list) = Records(pre_list)

\* a remove at an index between the count and the capacity
C7_Witness ==
    /\ call.op = "remove_device"
    /\ len(pre_list) = 2
    /\ call.arg = 2
    /\ call.ret = Err("IndexOutOfBounds")
    /\ Records(list) = <<1, 2>>

\* C8: the list refines the bounded sequence abs_list: same length, same
\* element at every index; a successful add is read back at index len() - 1;
\* is_empty() is true exactly when len() = 0.
C8_RefinesBoundedSequence ==
    /\ len(list) = Len(abs_list)
    /\ Records(list) = abs_list
    /\ \A i \in 0..(len(list) - 1) : get_device(list, i) = OkOf(abs_list[i + 1])
    /\ (call.op = "add_device" /\ call.ret = Ok) =>
           get_device(list, len(list) - 1) = OkOf(call.arg)
    /\ is_empty(list) = (len(list) = 0)

\* a remove from the front of a full list that holds both samples
C8_Witness ==
    /\ call.op = "remove_device"
    /\ call.ret = Ok
    /\ call.arg = 0
    /\ len(pre_list) = 10
    /\ Len(abs_list) = 9
    /\ abs_list[1] = 2
    /\ abs_list[9] = 1

(***************************************************************************)
(* The device record's bounded buffers.                                    *)
(***************************************************************************)
\* C9: set_device_name succeeds for every input of 0..32 bytes and
\* set_pairing_key for every input of 0..64 bytes; an input one byte over
\* (33 / 65) fails with InvalidBluetoothDeviceInfo and leaves the stored
\* bytes, the length and every other field of the record unchanged.
C9_SettersAcceptUpToCapacity ==
    /\ (call.op = "set_device_name" /\ Len(call.arg) <= 32) => call.ret = Ok
    /\ (call.op = "set_pairing_key" /\ Len(call.arg) <= 64) => call.ret = Ok
    /\ (call.op = "set_device_name" /\ Len(call.arg) = 33) =>
           /\ call.ret = Err("InvalidBluetoothDeviceInfo")
           /\ dev.device_name = pre_dev.device_name
           /\ dev.device_name_len = pre_dev.device_name_len
           /\ dev = pre_dev
    /\ (call.op = "set_pairing_key" /\ Len(call.arg) = 65) =>
           /\ call.ret = Err("InvalidBluetoothDeviceInfo")
           /\ dev.pairing_key = pre_dev.pairing_key
           /\ dev.pairing_key_len = pre_dev.pairing_key_len
           /\ dev = pre_dev

\* a key of 65 bytes is refused by a record whose name and key are at capacity
C9_Witness ==
    /\ call.op = "set_pairing_key"
    /\ Len(call.arg) = 65
    /\ call.ret = Err("InvalidBluetoothDeviceInfo")
    /\ pre_dev.pairing_key_len = 64
    /\ pre_dev.device_name_len = 32

\* C10: device_name_len <= 32, pairing_key_len <= 64, and every byte of the
\* name buffer at an index >= device_name_len and of the key buffer at an
\* index >= pairing_key_len is zero.
C10_BoundedBuffers ==
    /\ dev.device_name_len <= 32
    /\ dev.pairing_key_len <= 64
    /\ Len(dev.device_name) = 32
    /\ Len(dev.pairing_key) = 64
    /\ \A i \in 0..31 : i >= dev.device_name_len => dev.device_name[i + 1] = 0
    /\ \A i \in 0..63 : i >= dev.pairing_key_len => dev.pairing_key[i + 1] = 0

\* a shorter name written over a name at capacity, the key being set too
C10_Witness ==
    /\ call.op = "set_device_name"
    /\ call.ret = Ok
    /\ pre_dev.device_name_len = 32
    /\ dev.device_name_len = 5
    /\ dev.pairing_key_len = 64

(***************************************************************************)
(* Failures and the merges of the device record.                           *)
(***************************************************************************)
\* C11: a fallible operation that fails changes nothing; in particular
\* set_device_info with a name of at most 32 bytes and a key of more than 64
\* returns InvalidBluetoothDeviceInfo and leaves the stored name, its length,
\* the key and its length as they were before the call.
C11_FailureHasNoSideEffects ==
    /\ (call.op \in {"set_device_name", "set_pairing_key", "set_device_info"}
            /\ call.ret # Ok) => dev = pre_dev
    /\ (call.op = "set_device_info" /\ Len(call.arg[1]) <= 32 /\ Len(call.arg[2]) > 64) =>
           /\ call.ret = Err("InvalidBluetoothDeviceInfo")
           /\ dev.device_name = pre_dev.device_name
           /\ dev.device_name_len = pre_dev.device_name_len
           /\ dev.pairing_key = pre_dev.pairing_key
           /\ dev.pairing_key_len = pre_dev.pairing_key_len

\* the Connected flag, 0x20, is bit 5 of the flags byte; Paired, 0x01, is bit 0
ConnectedBit(flags) == (flags \div 32) % 2

PairedBit(flags) == flags % 2

\* C12: update_connection_params completes and increments the counter with
\* saturation: at 0xFFFFFFFF the counter stays 0xFFFFFFFF, the params are
\* replaced and the Connected flag is set; it never wraps or aborts.
C12_MergeSaturates ==
    call.op = "update_connection_params" =>
        /\ call.ret = <<>>
        /\ dev.connection_params = call.arg
        /\ ConnectedBit(dev.flags) = 1
        /\ pre_dev.connection_count = <<65535, 65535>> =>
               dev.connection_count = <<65535, 65535>>
        /\ pre_dev.connection_count # <<65535, 65535>> =>
               dev.connection_count # <<0, 0>>

\* b is the u32 one greater than the u32 a
OneGreater(a, b) ==
    \/ b[1] = a[1] /\ b[2] = a[2] + 1 /\ b[2] <= 65535
    \/ b[1] = a[1] + 1 /\ b[1] <= 65535 /\ a[2] = 65535 /\ b[2] = 0

\* C13: every update_connection_params makes connection_count exactly one
\* greater than before, stores the supplied params, leaves the Connected
\* flag set, and changes no other flag bit and no other field.
C13_MergeCountsExactlyOne ==
    call.op = "update_connection_params" =>
        /\ OneGreater(pre_dev.connection_count, dev.connection_count)
        /\ get_connection_params(dev) = call.arg
        /\ ConnectedBit(dev.flags) = 1
        /\ \A i \in 0..7 : i # 5 => Bit(dev.flags, i) = Bit(pre_dev.flags, i)
        /\ dev = [pre_dev EXCEPT !.connection_count = dev.connection_count,
                                 !.connection_params = call.arg,
                                 !.flags = dev.flags]

\* C14: update_security_info stores the supplied security info; it sets the
\* Paired flag when the supplied authenticated field is non-zero and leaves
\* it as it was when that field is zero; no other flag bit, no counter and
\* no other field changes.
C14_SecurityMergeSetsPaired ==
    call.op = "update_security_info" =>
        /\ dev.security_info = call.arg
        /\ call.arg.authenticated # 0 => PairedBit(dev.flags) = 1
        /\ call.arg.authenticated = 0 => PairedBit(dev.flags) = PairedBit(pre_dev.flags)
        /\ dev.flags \div 2 = pre_dev.flags \div 2
        /\ dev.connection_count = pre_dev.connection_count
        /\ dev = [pre_dev EXCEPT !.security_info = call.arg, !.flags = dev.flags]

\* an unauthenticated update on a paired record, and an authenticated one on
\* an unpaired record whose other flags are all set
C14_Witness ==
    /\ call.op = "update_security_info"
    /\ \/ /\ call.arg.authenticated = 0
          /\ call.arg.encrypted = 1
          /\ pre_dev.flags = 33
          /\ pre_dev.connection_count = <<65535, 65535>>
          /\ pre_dev.security_info.authenticated = 255
       \/ /\ call.arg.authenticated = 255
          /\ pre_dev.flags = 222
          /\ dev.flags = 223

(***************************************************************************)
(* Class of device and device type.                                        *)
(***************************************************************************)
\* the major class of a class of device: bits 2..6 of its byte 1
MajorClass(cod) == (cod[2] \div 4) % 32

\* 1 Computer, 2 Phone, 3 Network, 4 Audio, 5 Peripheral, 6 Imaging,
\* 7 Wearable, 8 Toy, anything else Unknown (0)
TypeOfMajor(m) == IF m \in 1..8 THEN m ELSE 0

FlagSet(flags, f) == (flags \div f) % 2 = 1

AddAllFlags(d) ==
    add_flag(add_flag(add_flag(add_flag(add_flag(add_flag(add_flag(add_flag(d,
        1), 2), 4), 8), 16), 32), 64), 128)

RemoveAllFlags(d) ==
    remove_flag(remove_flag(remove_flag(remove_flag(remove_flag(remove_flag(
        remove_flag(remove_flag(d, 1), 2), 4), 8), 16), 32), 64), 128)

\* C17: the eight flags 0x01 .. 0x80 are independent bits: add_flag(f) makes
\* has_flag(f) true, remove_flag(f) makes it false, each leaving has_flag(g)
\* as it was for every other flag g; adding all eight gives 0xFF and then
\* removing all eight gives 0.
C17_FlagsIndependent ==
    /\ AllFlags = {1, 2, 4, 8, 16, 32, 64, 128}
    /\ \A f \in AllFlags : has_flag(dev, f) = FlagSet(dev.flags, f)
    /\ call.op = "has_flag" => call.ret = FlagSet(pre_dev.flags, call.arg) /\ dev = pre_dev
    /\ call.op = "add_flag" =>
           /\ has_flag(dev, call.arg)
           /\ \A g \in AllFlags \ {call.arg} : has_flag(dev, g) = has_flag(pre_dev, g)
           /\ dev = [pre_dev EXCEPT !.flags = dev.flags]
    /\ call.op = "remove_flag" =>
           /\ ~has_flag(dev, call.arg)
           /\ \A g \in AllFlags \ {call.arg} : has_flag(dev, g) = has_flag(pre_dev, g)
           /\ dev = [pre_dev EXCEPT !.flags = dev.flags]
    /\ get_flags(AddAllFlags(dev)) = 255
    /\ get_flags(RemoveAllFlags(AddAllFlags(dev))) = 0

\* Connected removed from a byte with all eight flags set
C17_Witness ==
    /\ call.op = "remove_flag"
    /\ call.arg = 32
    /\ pre_dev.flags = 255
    /\ dev.flags = 223

(***************************************************************************)
(* Validity and construction of the device record.                         *)
(***************************************************************************)
\* C18: is_valid() is true exactly when the validity tag is the device-record
\* constant and some address byte is non-zero: a default record and a record
\* from new with the all-zero address are not valid, a record from new with
\* a non-zero address is, and a valid record stays valid under every setter
\* other than set_mac_address.
C18_ValidIffTagAndAddress ==
    /\ is_valid(dev) =
           (dev.magic = 1112820805 /\ \E i \in 1..6 : dev.mac_address[i] # 0)
    /\ call.op = "default" => ~is_valid(dev)
    /\ (call.op = "new" /\ call.ret = Ok) =>
           (is_valid(dev) = (\E i \in 1..6 : call.arg[1][i] # 0))
    /\ (call.op \notin {"set_mac_address", "new", "default", "zeroed"} /\ is_valid(pre_dev)) =>
           is_valid(dev)

\* new with the all-zero address gives a record that is not valid, in place
\* of a valid one
C18_Witness ==
    /\ call.op = "new"
    /\ call.ret = Ok
    /\ call.arg[1] = <<0, 0, 0, 0, 0, 0>>
    /\ is_valid(pre_dev)
    /\ ~is_valid(dev)

\* C19: new(address, name) fails with InvalidBluetoothDeviceInfo for a name
\* longer than 32 bytes and produces no record; otherwise the record has the
\* validity tag, the given address, the given name and its length, an
\* all-zero pairing key of length 0, flags 0, device type Unknown, and
\* connection counter, last-seen and last-connected 0.
C19_NewRecord ==
    call.op = "new" =>
        /\ Len(call.arg[2]) > 32 =>
               /\ call.ret = Err("InvalidBluetoothDeviceInfo")
               /\ dev = pre_dev
        /\ Len(call.arg[2]) <= 32 =>
               /\ call.ret = Ok
               /\ dev.magic = 1112820805
               /\ get_mac_address(dev) = call.arg[1]
               /\ get_device_name(dev) = call.arg[2]
               /\ dev.device_name_len = Len(call.arg[2])
               /\ dev.pairing_key = [i \in 1..64 |-> 0]
               /\ dev.pairing_key_len = 0
               /\ get_pairing_key(dev) = <<>>
               /\ get_flags(dev) = 0
               /\ get_device_type(dev) = 0
               /\ dev.connection_count = <<0, 0>>
               /\ dev.last_seen = 0
               /\ dev.last_connected = 0

\* new with a 32-byte name, in place of a record whose key, flags, class,
\* counter and timestamps were set
C19_Witness ==
    /\ call.op = "new"
    /\ call.ret = Ok
    /\ call.arg[1] = MacA
    /\ Len(call.arg[2]) = 32
    /\ pre_dev.pairing_key_len = 12
    /\ pre_dev.flags = 33
    /\ pre_dev.device_type = 4
    /\ pre_dev.connection_count = <<0, 1>>
    /\ pre_dev.last_seen = 1234567890

(***************************************************************************)
(* ConnHandle.                                                             *)
(***************************************************************************)
\* C20: ConnHandle::new and ConnHandle::from accept every value in
\* 0x0000..0x0EFF and panic on every value >= 0x0F00; for an accepted v,
\* raw() and the conversion to u16 give v, and converting a handle to u16
\* and back gives the same handle.
C20_ConnHandleRange ==
    /\ call.op \in {"ConnHandle::new", "ConnHandle::from"} =>
           /\ call.arg <= 3839 =>
                  /\ call.ret[1] = "Ok"
                  /\ raw(call.ret[2]) = call.arg
                  /\ u16_from(call.ret[2]) = call.arg
                  /\ ConnHandle_from(u16_from(call.ret[2])) = <<"Ok", call.ret[2]>>
           /\ call.arg >= 3840 => call.ret = <<"panic">>
    /\ call.op \in {"raw", "u16::from"} =>
           /\ call.ret \in 0..3839
           /\ ConnHandle_from(call.ret) = <<"Ok", call.arg>>
           /\ ConnHandle_new(call.ret) = <<"Ok", call.arg>>

\* the largest accepted value
C20_Witness ==
    /\ call.op = "ConnHandle::from"
    /\ call.arg = 3839
    /\ call.ret = <<"Ok", <<3839>>>>

(***************************************************************************)
(* C21: get_connection_handle() returns None exactly when the stored raw   *)
(* handle is 0: in a new state, after set_connection_handle(None) and      *)
(* after set_connection_handle(Some(ConnHandle::new(0))).  After           *)
(* set_connection_handle(Some(h)) with h.raw() in 1..0x0EFF it returns     *)
(* Some(h).                                                                *)
(***************************************************************************)
C21_HandleNoneIffZero ==
    /\ get_connection_handle(BluetoothConnectionState_default) = None
    /\ (get_connection_handle(cs) = None)
           <=> (raw(cs.device_config.connection_params.connection_handle) = 0)
    /\ call.op = "set_connection_handle" =>
           /\ call.arg = None => get_connection_handle(cs) = None
           /\ call.arg = Some(ConnHandle_new(0)[2]) => get_connection_handle(cs) = None
           /\ (call.arg # None /\ raw(call.arg[1]) \in 1..CONN_HANDLE_MAX) =>
                  get_connection_handle(cs) = call.arg

\* a stored handle 0x0EFF is replaced by Some(ConnHandle::new(0)) and the getter
\* answers None
C21_Witness ==
    /\ call.op = "set_connection_handle"
    /\ call.arg = Some(ConnHandle_new(0)[2])
    /\ get_connection_handle(pre_cs) = Some(ConnHandle_new(CONN_HANDLE_MAX)[2])
    /\ get_connection_handle(cs) = None

(***************************************************************************)
(* C22: over the 13 phases, is_connected is true exactly for Connected,    *)
(* Authenticating, SettingUpEncryption, FullyConnected, ServiceDiscovery,  *)
(* Ready and Maintaining; is_secure exactly for FullyConnected,            *)
(* ServiceDiscovery, Ready and Maintaining; is_ready exactly for Ready and *)
(* Maintaining; hence is_ready implies is_secure implies is_connected.     *)
(* Stated of the phase the connection state is in, as_u8(phase) giving the *)
(* position of the phase in the declaration.                               *)
(***************************************************************************)
C22_PhasePredicates ==
    LET phase == get_connection_phase(cs)
        n     == as_u8(phase)
    IN  /\ BluetoothConnectionPhase_is_connected(phase) <=> n \in 3..9
        /\ BluetoothConnectionPhase_is_secure(phase) <=> n \in 6..9
        /\ BluetoothConnectionPhase_is_ready(phase) <=> n \in 8..9
        /\ BluetoothConnectionPhase_is_ready(phase) => BluetoothConnectionPhase_is_secure(phase)
        /\ BluetoothConnectionPhase_is_secure(phase) => BluetoothConnectionPhase_is_connected(phase)

\* the state is taken to SettingUpEncryption: connected, not yet secure
C22_Witness ==
    /\ call.op \in {"advance_to_phase", "set_connection_phase"}
    /\ get_connection_phase(pre_cs) # "SettingUpEncryption"
    /\ get_connection_phase(cs) = "SettingUpEncryption"
    /\ BluetoothConnectionPhase_is_connected(get_connection_phase(cs))
    /\ ~BluetoothConnectionPhase_is_secure(get_connection_phase(cs))

(***************************************************************************)
(* C23: the happy path Idle, Discovery, Connecting, Connected,             *)
(* Authenticating, SettingUpEncryption, FullyConnected, ServiceDiscovery,  *)
(* Ready, Maintaining, Disconnecting, Idle is accepted: starting from a    *)
(* new state every advance_to_phase along it returns true and the phase    *)
(* afterwards is the requested one.                                        *)
(***************************************************************************)
HappyPath ==
    <<"Discovery", "Connecting", "Connected", "Authenticating", "SettingUpEncryption",
      "FullyConnected", "ServiceDiscovery", "Ready", "Maintaining", "Disconnecting", "Idle">>

\* the state after the first n requests of path, made one after the other on s
RECURSIVE StateAfter(_, _, _)
StateAfter(s, path, n) ==
    IF n = 0 THEN s ELSE advance_to_phase(StateAfter(s, path, n - 1), path[n])[2]

\* every request of path is accepted, one after the other from s
Accepted(s, path) ==
    \A n \in 1..Len(path) :
        /\ advance_to_phase(StateAfter(s, path, n - 1), path[n])[1]
        /\ get_connection_phase(StateAfter(s, path, n)) = path[n]

C23_HappyPathAccepted ==
    /\ Accepted(BluetoothConnectionState_default, HappyPath)
    /\ (call.op = "advance_to_phase" /\ \E n \in 1..Len(HappyPath) :
            /\ call.arg = HappyPath[n]
            /\ PhaseBefore = IF n = 1 THEN "Idle" ELSE HappyPath[n - 1])
           => call.ret /\ PhaseAfter = call.arg

\* the state is where ten steps of the happy path take a new state, the tenth
\* step being the call just made
C23_Witness ==
    /\ call.op = "advance_to_phase"
    /\ call.arg = "Disconnecting"
    /\ call.ret
    /\ pre_cs = StateAfter(BluetoothConnectionState_default, HappyPath, 9)
    /\ cs = StateAfter(BluetoothConnectionState_default, HappyPath, 10)

RECURSIVE ReachableFrom(_)
ReachableFrom(S) ==
    LET T == S \cup {advance_to_phase(s, next_phase)[2] :
                         s \in S, next_phase \in BluetoothConnectionPhase}
    IN  IF T = S THEN S ELSE ReachableFrom(T)

PhasesOf(S) == {get_connection_phase(s) : s \in S}

C25_NoTerminalOrUnreachablePhase ==
    /\ PhasesOf(ReachableFrom({BluetoothConnectionState_default})) = BluetoothConnectionPhase
    /\ "Idle" \in PhasesOf(ReachableFrom({cs}))
    /\ PhaseAfter # "Idle" => PhasesOf(ReachableFrom({cs})) # {PhaseAfter}

\* Reconnecting has been entered from Failed; Idle is two or more calls back
C25_Witness ==
    /\ call.op = "advance_to_phase"
    /\ call.ret
    /\ PhaseBefore = "Failed"
    /\ PhaseAfter = "Reconnecting"
    /\ "Idle" \in PhasesOf(ReachableFrom({cs}))

(***************************************************************************)
(* C29: from Failed the only accepted requests are Reconnecting and Idle;  *)
(* from Reconnecting the only accepted requests are Connecting, Failed and *)
(* Idle.  Hence, with advance_to_phase alone, a state that is Failed does  *)
(* not become Connected without passing Connecting: Connected is entered   *)
(* from Connecting only.  The sequence Failed, Reconnecting, Connecting,   *)
(* Connected is accepted.                                                  *)
(***************************************************************************)
C29_RecoveryFromFailed ==
    /\ LET failed == StateAfter(BluetoothConnectionState_default, <<"Connecting", "Failed">>, 2)
       IN  /\ get_connection_phase(failed) = "Failed"
           /\ Accepted(failed, <<"Reconnecting", "Connecting", "Connected">>)
    /\ call.op = "advance_to_phase" =>
           /\ PhaseBefore = "Failed" =>
                  (call.ret <=> call.arg \in {"Reconnecting", "Idle"})
           /\ PhaseBefore = "Reconnecting" =>
                  (call.ret <=> call.arg \in {"Connecting", "Failed", "Idle"})
           /\ PhaseBefore \in {"Failed", "Reconnecting"} =>
                  PhaseAfter = IF call.ret THEN call.arg ELSE PhaseBefore
           /\ (PhaseAfter = "Connected" /\ PhaseBefore # "Connected") =>
                  PhaseBefore = "Connecting"

\* Connected is requested in Failed and refused
C29_Witness ==
    /\ call.op = "advance_to_phase"
    /\ PhaseBefore = "Failed"
    /\ call.arg = "Connected"
    /\ ~call.ret
    /\ PhaseAfter = "Failed"

(***************************************************************************)
(* C26: the attributes of a BluetoothConnectionState are independent.      *)
(* advance_to_phase and set_connection_phase change nothing but the phase; *)
(* set_connected changes only bit 0x01 of the flags and set_authenticated  *)
(* only bit 0x02, so the flags byte stays in 0..3; set_link_quality        *)
(* changes only the link quality; none of the five changes the embedded    *)
(* remote-device record, and a phase change never changes the flags.       *)
(***************************************************************************)
C26_AttributesIndependent ==
    /\ cs.connection_flags \in 0..3
    /\ call.op \in {"advance_to_phase", "set_connection_phase"} =>
           /\ cs = [pre_cs EXCEPT !.connection_phase = cs.connection_phase]
           /\ cs.connection_flags = pre_cs.connection_flags
           /\ is_connected(cs) = is_connected(pre_cs)
           /\ is_authenticated(cs) = is_authenticated(pre_cs)
    /\ call.op = "set_connected" =>
           /\ cs = [pre_cs EXCEPT !.connection_flags = cs.connection_flags]
           /\ cs.connection_flags % 2 = IF call.arg THEN 1 ELSE 0
           /\ cs.connection_flags \div 2 = pre_cs.connection_flags \div 2
           /\ is_connected(cs) = call.arg
           /\ is_authenticated(cs) = is_authenticated(pre_cs)
    /\ call.op = "set_authenticated" =>
           /\ cs = [pre_cs EXCEPT !.connection_flags = cs.connection_flags]
           /\ (cs.connection_flags \div 2) % 2 = IF call.arg THEN 1 ELSE 0
           /\ cs.connection_flags % 2 = pre_cs.connection_flags % 2
           /\ cs.connection_flags \div 4 = pre_cs.connection_flags \div 4
           /\ is_authenticated(cs) = call.arg
           /\ is_connected(cs) = is_connected(pre_cs)
    /\ call.op = "set_link_quality" =>
           /\ cs = [pre_cs EXCEPT !.link_quality = call.arg]
           /\ get_link_quality(cs) = call.arg
    /\ call.op \in {"advance_to_phase", "set_connection_phase", "set_connected",
                    "set_authenticated", "set_link_quality"} =>
           get_remote_device(cs) = get_remote_device(pre_cs)

\* authenticated is set on a connected state that has a remote device, a link
\* quality and a phase of its own
C26_Witness ==
    /\ call.op = "set_authenticated"
    /\ call.arg
    /\ pre_cs.connection_flags = 1
    /\ cs.connection_flags = 3
    /\ get_link_quality(cs) = 85
    /\ get_connection_phase(cs) = "Connected"
    /\ get_remote_device(cs) # BluetoothDeviceInfo_default

(***************************************************************************)
(* C27: the byte layout of BluetoothDeviceInfo has no hidden padding under *)
(* the C layout rule: the sizes of its declared fields, _padding1 and      *)
(* _padding2 included, add up to the size of the structure, and no field,  *)
(* connection_count in particular, is preceded by a gap.                   *)
(***************************************************************************)
RECURSIVE SumOfSizes(_, _)
SumOfSizes(fields, n) == IF n = 0 THEN 0 ELSE SumOfSizes(fields, n - 1) + fields[n].size

\* the bytes between the end of field n - 1 and the start of field n
GapBefore(fields, n) == offset_of(fields, n) - (offset_of(fields, n - 1) + fields[n - 1].size)

FieldNamed(fields, name) == CHOOSE n \in 1..Len(fields) : fields[n].name = name

\* the array fields of the record d have the sizes the layout gives them
ArraysAsDeclared(d, fields) ==
    /\ Len(d.mac_address) = fields[FieldNamed(fields, "mac_address")].size
    /\ Len(d.device_name) = fields[FieldNamed(fields, "device_name")].size
    /\ Len(d.pairing_key) = fields[FieldNamed(fields, "pairing_key")].size
    /\ Len(d.class_of_device) = fields[FieldNamed(fields, "class_of_device")].size

C27_NoHiddenPadding ==
    LET fields == BluetoothDeviceInfo_fields
    IN  /\ ArraysAsDeclared(dev, fields)
        /\ size_of(fields) = SumOfSizes(fields, Len(fields))
        /\ \A n \in 2..Len(fields) : GapBefore(fields, n) = 0
        /\ GapBefore(fields, FieldNamed(fields, "connection_count")) = 0

\* what the declaration gives: _padding1 ends at offset 114, connection_count is
\* at 116, and the structure takes 192 bytes for 190 bytes of fields; the two
\* nested structures and every other field are packed
C27_TwoHiddenBytes ==
    LET fields == BluetoothDeviceInfo_fields
        cc     == FieldNamed(fields, "connection_count")
    IN  /\ ArraysAsDeclared(dev, fields)
        /\ size_of(BluetoothConnectionParams_fields) = 24
        /\ size_of(BluetoothSecurityInfo_fields) = 32
        /\ offset_of(fields, cc - 1) + fields[cc - 1].size = 114
        /\ offset_of(fields, cc) = 116
        /\ GapBefore(fields, cc) = 2
        /\ \A n \in 2..Len(fields) : n # cc => GapBefore(fields, n) = 0
        /\ SumOfSizes(fields, Len(fields)) = 190
        /\ size_of(fields) = 192
        /\ align_of(fields) = 4

(***************************************************************************)
(* C28: name and key round trip.  After a successful set_device_name(x),   *)
(* get_device_name() returns exactly x, and after a successful             *)
(* set_pairing_key(k), get_pairing_key() returns exactly k, whatever was   *)
(* stored before (the last write wins); setting the one never changes what *)
(* the getter of the other returns.                                        *)
(***************************************************************************)
C28_NameKeyRoundTrip ==
    /\ call.op = "set_device_name" =>
           /\ call.ret = Ok => get_device_name(dev) = call.arg
           /\ call.ret # Ok => get_device_name(dev) = get_device_name(pre_dev)
           /\ get_pairing_key(dev) = get_pairing_key(pre_dev)
    /\ call.op = "set_pairing_key" =>
           /\ call.ret = Ok => get_pairing_key(dev) = call.arg
           /\ call.ret # Ok => get_pairing_key(dev) = get_pairing_key(pre_dev)
           /\ get_device_name(dev) = get_device_name(pre_dev)

\* a name of 5 bytes is written over a name of 32 bytes, beside a key of 64 bytes
C28_Witness ==
    /\ call.op = "set_device_name"
    /\ call.ret = Ok
    /\ Len(call.arg) = 5
    /\ Len(get_device_name(pre_dev)) = 32
    /\ Len(get_pairing_key(pre_dev)) = 64
    /\ get_device_name(dev) = call.arg
    /\ get_pairing_key(dev) = get_pairing_key(pre_dev)

(***************************************************************************)
(* C30: WifiConfig::set_credentials is all-or-nothing.  With an SSID of    *)
(* more than 32 bytes or a password of more than 64 bytes it fails with    *)
(* CredentialLengthExceeded and both stored values are as before the call; *)
(* on success both getters return the values supplied.                     *)
(***************************************************************************)
C30_CredentialsAllOrNothing ==
    call.op = "set_credentials" =>
        LET ssid     == call.arg[1]
            password == call.arg[2]
        IN  IF Len(ssid) > 32 \/ Len(password) > 64
            THEN /\ call.ret = Err("CredentialLengthExceeded")
                 /\ get_ssid(wifi) = get_ssid(pre_wifi)
                 /\ get_password(wifi) = get_password(pre_wifi)
                 /\ wifi = pre_wifi
            ELSE /\ call.ret = Ok
                 /\ get_ssid(wifi) = ssid
                 /\ get_password(wifi) = password

\* a valid SSID comes with a password of 65 bytes, on a config that holds
\* credentials: it is refused and the SSID held is not the one supplied
C30_Witness ==
    /\ call.op = "set_credentials"
    /\ Len(call.arg[1]) = 7
    /\ Len(call.arg[2]) = 65
    /\ call.ret = Err("CredentialLengthExceeded")
    /\ Len(get_ssid(pre_wifi)) = 11
    /\ Len(get_password(pre_wifi)) = 17
    /\ get_ssid(wifi) = get_ssid(pre_wifi)

(***************************************************************************)
(* C31: DeviceInfo::set_hardware_id and set_secret overwrite only the      *)
(* first len(input) bytes of their 32-byte and 128-byte buffers and leave  *)
(* the other bytes as they were: a shorter value set after a longer one    *)
(* leaves the shorter value followed by the tail of the longer one.  An    *)
(* input of more than 32 or 128 bytes fails with IdentityLengthExceeded    *)
(* and changes nothing; setting the one field never changes the other.     *)
(***************************************************************************)
\* buffer is before with its first Len(input) bytes replaced by input
PrefixOverwritten(buffer, before, input) ==
    /\ Len(buffer) = Len(before)
    /\ \A i \in 1..Len(buffer) :
           buffer[i] = IF i <= Len(input) THEN input[i] ELSE before[i]

RECURSIVE ReachableAvoiding(_, _)
ReachableAvoiding(S, avoided) ==
    LET T == S \cup {t \in {advance_to_phase(s, next_phase)[2] :
                                s \in S, next_phase \in BluetoothConnectionPhase} :
                         get_connection_phase(t) \notin avoided}
    IN  IF T = S THEN S ELSE ReachableAvoiding(T, avoided)

\* the current phase can be reached from a new state without passing through x
ReachedWithout(x) ==
    PhaseAfter \in PhasesOf(ReachableAvoiding({BluetoothConnectionState_default}, {x}))

(***************************************************************************)
(* C32: in a run from a new state in which the phase changes through       *)
(* advance_to_phase only, whenever the current phase satisfies is_secure   *)
(* (FullyConnected, ServiceDiscovery, Ready, Maintaining) the run has      *)
(* passed through Authenticating and through SettingUpEncryption since the *)
(* phase last was Idle.                                                    *)
(***************************************************************************)
C32_SecureOnlyAfterEncryption ==
    BluetoothConnectionPhase_is_secure(PhaseAfter) =>
        /\ ~ReachedWithout("Authenticating")
        /\ ~ReachedWithout("SettingUpEncryption")

(***************************************************************************)
(* C33: in a run from a new state in which the phase changes through       *)
(* advance_to_phase only, Connected is entered only directly from          *)
(* Connecting, and whenever the current phase satisfies the phase          *)
(* predicate is_connected the run has passed through Connecting and then   *)
(* Connected since the phase last was Idle.                                *)
(***************************************************************************)
C33_ConnectedOnlyThroughConnecting ==
    /\ (call.op = "advance_to_phase" /\ call.ret /\ call.arg = "Connected") =>
           PhaseBefore = "Connecting"
    /\ (PhaseAfter = "Connected" /\ PhaseBefore # "Connected") =>
           PhaseBefore = "Connecting"
    /\ BluetoothConnectionPhase_is_connected(PhaseAfter) =>
           /\ ~ReachedWithout("Connecting")
           /\ ~ReachedWithout("Connected")
    /\ (BluetoothConnectionPhase_is_connected(PhaseAfter)
            /\ ~BluetoothConnectionPhase_is_connected(PhaseBefore)) =>
           PhaseBefore = "Connecting" /\ PhaseAfter = "Connected"

\* Connected is entered from Connecting: the phase predicate is_connected
\* becomes true
C33_Witness ==
    /\ call.op = "advance_to_phase"
    /\ call.ret
    /\ PhaseBefore = "Connecting"
    /\ PhaseAfter = "Connected"
    /\ BluetoothConnectionPhase_is_connected(PhaseAfter)
    /\ ~BluetoothConnectionPhase_is_connected(PhaseBefore)

(***************************************************************************)
(* C34: the connection handle and the link type of a connection state live *)
(* in the connection params of the embedded remote-device record.  After   *)
(* set_connection_handle(Some(h)) and set_link_type(t), a                  *)
(* set_remote_device(d) makes get_connection_handle() and get_link_type()  *)
(* return d's handle (None if it is 0) and d's link type, not h and t.     *)
(* set_connection_handle and set_link_type change only those two fields of *)
(* the embedded record: they neither increment its connection counter nor  *)
(* set its Connected flag.                                                 *)
(***************************************************************************)
C34_HandleAndLinkTypeInEmbeddedRecord ==
    /\ call.op = "set_remote_device" =>
           LET params == call.arg.connection_params
           IN  /\ get_connection_handle(cs) =
                      IF params.connection_handle = <<0>> THEN None
                                                          ELSE Some(params.connection_handle)
               /\ get_link_type(cs) = params.link_type
               /\ cs = [pre_cs EXCEPT !.device_config = call.arg]
    /\ call.op = "set_connection_handle" =>
           /\ cs = [pre_cs EXCEPT !.device_config.connection_params.connection_handle =
                                      cs.device_config.connection_params.connection_handle]
           /\ cs.device_config.connection_count = pre_cs.device_config.connection_count
           /\ get_flags(cs.device_config) = get_flags(pre_cs.device_config)
           /\ get_link_type(cs) = get_link_type(pre_cs)
    /\ call.op = "set_link_type" =>
           /\ cs = [pre_cs EXCEPT !.device_config.connection_params.link_type = call.arg]
           /\ cs.device_config.connection_count = pre_cs.device_config.connection_count
           /\ get_flags(cs.device_config) = get_flags(pre_cs.device_config)
           /\ get_connection_handle(cs) = get_connection_handle(pre_cs)

\* a state with the handle 0x0EFF and the link type 1 is given a record whose
\* handle is 0x0042 and whose link type is 0
C34_Witness ==
    /\ call.op = "set_remote_device"
    /\ get_connection_handle(pre_cs) = Some(<<CONN_HANDLE_MAX>>)
    /\ get_link_type(pre_cs) = 1
    /\ get_connection_handle(cs) = Some(<<66>>)
    /\ get_link_type(cs) = 0

(***************************************************************************)
(* C37: in every connection state and device record that the public        *)
(* constructors and mutators give (ConnHandle::new, from and default,      *)
(* set_connection_handle, update_connection_params, set_remote_device),    *)
(* the raw connection handle stored is in 0..0x0EFF: no sequence of        *)
(* operations stores a handle in the reserved range 0x0F00..0xFFFF.        *)
(***************************************************************************)
C37_StoredHandleInRange ==
    /\ raw(cs.device_config.connection_params.connection_handle) \in 0..CONN_HANDLE_MAX
    /\ raw(dev.connection_params.connection_handle) \in 0..CONN_HANDLE_MAX
    /\ call.op = "set_remote_device" =>
           raw(call.arg.connection_params.connection_handle) \in 0..CONN_HANDLE_MAX
    /\ call.op = "update_connection_params" =>
           raw(call.arg.connection_handle) \in 0..CONN_HANDLE_MAX
    /\ (call.op = "set_connection_handle" /\ call.arg # None) =>
           raw(call.arg[1]) \in 0..CONN_HANDLE_MAX

\* the largest handle, 0x0EFF, is stored over the handle 0x0042 of a record that
\* update_connection_params made
C37_Witness ==
    /\ call.op = "set_connection_handle"
    /\ call.arg = Some(<<CONN_HANDLE_MAX>>)
    /\ raw(pre_cs.device_config.connection_params.connection_handle) = 66
    /\ has_flag(pre_cs.device_config, FLAG_CONNECTED)
    /\ raw(cs.device_config.connection_params.connection_handle) = CONN_HANDLE_MAX

(***************************************************************************)
(* C35: remove_device does not clear the slot it vacates.  After           *)
(* remove_device(i) on a list of n records with i < n - 1, the raw slot at *)
(* index n - 1, now outside the count, still holds a copy of the record    *)
(* that was last; after the removal of the last record (i = n - 1) it      *)
(* still holds the removed record, pairing key included.  The stale slot   *)
(* is never returned by get_device, and the next successful add_device     *)
(* overwrites it.                                                          *)
(***************************************************************************)
C35_RemoveLeavesStaleSlot ==
    /\ (call.op = "remove_device" /\ call.ret = Ok) =>
           LET n == len(pre_list)
           IN  /\ len(list) = n - 1
               /\ list.devices[n] = pre_list.devices[n]
               /\ list.devices[n] = get_device(pre_list, n - 1)[2]
               /\ call.arg = n - 1 => list.devices[n] = get_device(pre_list, call.arg)[2]
               /\ get_pairing_key(SampleRecord(list.devices[n]))
                      = get_pairing_key(SampleRecord(pre_list.devices[n]))
               /\ get_device(list, n - 1) = Err("IndexOutOfBounds")
    /\ \A index \in 0..MaxIndex :
           index >= len(list) => get_device(list, index) = Err("IndexOutOfBounds")
    /\ (call.op = "get_device" /\ call.ret[1] = "Ok") => call.arg < len(list)
    /\ (call.op = "add_device" /\ call.ret = Ok) =>
           /\ list.devices[len(pre_list) + 1] = call.arg
           /\ \A i \in 1..DEVICE_LIST_CAPACITY :
                  i # len(pre_list) + 1 => list.devices[i] = pre_list.devices[i]

\* the last of two records, the one with the pairing key, is removed: the slot
\* outside the count still holds it and its key
C35_Witness ==
    /\ call.op = "remove_device"
    /\ call.ret = Ok
    /\ len(pre_list) = 2
    /\ call.arg = 1
    /\ len(list) = 1
    /\ list.devices[2] = 2
    /\ get_pairing_key(SampleRecord(list.devices[2])) = TestKey
    /\ get_device(list, 1) = Err("IndexOutOfBounds")

(***************************************************************************)
(* C36: add_device neither validates nor de-duplicates.  Whenever          *)
(* len() < 10 it accepts any record, a record for which is_valid() is      *)
(* false (all-zero address) and a record whose address is that of a record *)
(* already in the list included; the same address can be in several slots, *)
(* and removing one of them leaves the others in place.                    *)
(***************************************************************************)
\* the indices below len() whose record has the address of record k
SlotsWithAddressOf(l, k) ==
    {i \in 0..(len(l) - 1) :
        get_mac_address(SampleRecord(get_device(l, i)[2])) = get_mac_address(SampleRecord(k))}

C36_AddAcceptsAnyRecord ==
    /\ (call.op = "add_device" /\ len(pre_list) < 10) =>
           /\ call.ret = Ok
           /\ len(list) = len(pre_list) + 1
           /\ get_device(list, len(pre_list)) = OkOf(call.arg)
           /\ SlotsWithAddressOf(list, call.arg)
                  = SlotsWithAddressOf(pre_list, call.arg) \cup {len(pre_list)}
    /\ (call.op = "remove_device" /\ call.ret = Ok) =>
           LET removed == get_device(pre_list, call.arg)[2]
           IN  /\ Cardinality(SlotsWithAddressOf(list, removed))
                      = Cardinality(SlotsWithAddressOf(pre_list, removed)) - 1
               /\ \A k \in {0, 1, 2} :
                      get_mac_address(SampleRecord(k)) # get_mac_address(SampleRecord(removed)) =>
                          Cardinality(SlotsWithAddressOf(list, k))
                              = Cardinality(SlotsWithAddressOf(pre_list, k))

\* a record that is not valid is added to a list that holds record 1 twice and
\* a record like it already
C36_Witness ==
    /\ call.op = "add_device"
    /\ call.ret = Ok
    /\ ~is_valid(SampleRecord(call.arg))
    /\ AllZero(get_mac_address(SampleRecord(call.arg)))
    /\ Records(pre_list) = <<1, 0, 1>>
    /\ Records(list) = <<1, 0, 1, 0>>
    /\ Cardinality(SlotsWithAddressOf(list, 1)) = 2

\* C39: increment_connection_count adds one to the connection counter and
\* saturates at 0xFFFFFFFF: below 0xFFFFFFFF the counter is one greater than
\* before (with the carry into the upper half), at 0xFFFFFFFF it stays; the
\* call changes no flag, so it does not set Connected, and no other field.
C39_IncrementSaturates ==
    call.op = "increment_connection_count" =>
        /\ pre_dev.connection_count # u32_MAX =>
               OneGreater(pre_dev.connection_count, dev.connection_count)
        /\ pre_dev.connection_count = u32_MAX => dev.connection_count = u32_MAX
        /\ dev.flags = pre_dev.flags
        /\ dev = [pre_dev EXCEPT !.connection_count = dev.connection_count]

\* increment_connection_count was called at 0xFFFFFFFF on a record whose
\* Connected flag is clear
C39_Witness ==
    /\ call.op = "increment_connection_count"
    /\ pre_dev.connection_count = u32_MAX
    /\ dev.connection_count = u32_MAX
    /\ ~has_flag(dev, FLAG_CONNECTED)

\* C38: the stored phase byte is always in 0..12 and is the discriminant of the
\* phase get_connection_phase decodes, so the fallback of the decoding is
\* never taken for a byte other than 0; get_connection_phase() after
\* set_connection_phase(p) is p for each of the 13 phases; the count byte of
\* the list stays in 0..10: add_device succeeds only with a count below 10
\* and makes it one greater, remove_device succeeds only with a count of at
\* least 1 and makes it one less, and a failing call leaves it.
C38_PhaseAndCountBytesInRange ==
    /\ cs.connection_phase \in 0..12
    /\ as_u8(get_connection_phase(cs)) = cs.connection_phase
    /\ call.op = "set_connection_phase" =>
           /\ call.arg \in BluetoothConnectionPhase
           /\ get_connection_phase(cs) = call.arg
    /\ list.device_count \in 0..DEVICE_LIST_CAPACITY
    /\ (call.op = "add_device" /\ call.ret = Ok) =>
           /\ pre_list.device_count < DEVICE_LIST_CAPACITY
           /\ list.device_count = pre_list.device_count + 1
    /\ (call.op = "remove_device" /\ call.ret = Ok) =>
           /\ pre_list.device_count >= 1
           /\ list.device_count = pre_list.device_count - 1
    /\ (call.op \in {"add_device", "remove_device"} /\ call.ret # Ok) =>
           list.device_count = pre_list.device_count

\* set_connection_phase(Disconnecting), the greatest discriminant, was called
\* while the list is full
C38_Witness ==
    /\ call.op = "set_connection_phase"
    /\ call.arg = "Disconnecting"
    /\ cs.connection_phase = 12
    /\ list.device_count = DEVICE_LIST_CAPACITY

====
